---- MODULE Spec2Model ----
(***************************************************************************)
(* A model of the graph/key/orchestration core of genno:                   *)
(*   - Key            (src/genno/core/key.py)                              *)
(*   - Graph          (src/genno/core/graph.py)                            *)
(*   - Computer       (src/genno/core/computer.py): add_single, add_queue, *)
(*                    check_keys, apply and get                            *)
(*                                                                         *)
(* Python strings are modelled as sequences of characters ("atoms"), so    *)
(* that formatting a Key and parsing a string are computed, not assumed.   *)
(* hash() of a string is modelled injectively: the hash of a string is the *)
(* string itself, so two values share a dict slot exactly when the strings *)
(* that are hashed are identical.                                          *)
(***************************************************************************)
EXTENDS Integers, Sequences, FiniteSets, TLC

(***************************************************************************)
(* Strings                                                                 *)
(***************************************************************************)

\* Characters in code-point order, for sorted().
AtomOrder == <<"+", "-", ":", "a", "b", "c", "f", "g", "t", "u", "x", "y">>

Rank(ch) == CHOOSE i \in 1..Len(AtomOrder) : AtomOrder[i] = ch

\* Python's str.__lt__: lexicographic comparison.
RECURSIVE StrLess(_, _)
StrLess(s, t) ==
    IF t = <<>> THEN FALSE
    ELSE IF s = <<>> THEN TRUE
    ELSE IF Head(s) = Head(t) THEN StrLess(Tail(s), Tail(t))
    ELSE Rank(Head(s)) < Rank(Head(t))

\* Python's str.split(sep) for a one-character separator.
RECURSIVE Split(_, _)
Split(s, sep) ==
    IF s = <<>> THEN << <<>> >>
    ELSE LET rest == Split(Tail(s), sep) IN
         IF Head(s) = sep THEN << <<>> >> \o rest
         ELSE << <<Head(s)>> \o Head(rest) >> \o Tail(rest)

\* Python's sep.join(parts).
RECURSIVE Join(_, _)
Join(parts, sep) ==
    IF parts = <<>> THEN <<>>
    ELSE IF Len(parts) = 1 THEN Head(parts)
    ELSE Head(parts) \o <<sep>> \o Join(Tail(parts), sep)

\* Python's sorted() on a sequence of strings (insertion sort; the order of
\* equal elements is immaterial because equal strings are identical).
RECURSIVE Insert(_, _)
Insert(d, ds) ==
    IF ds = <<>> THEN <<d>>
    ELSE IF StrLess(Head(ds), d) THEN <<Head(ds)>> \o Insert(d, Tail(ds))
    ELSE <<d>> \o ds

RECURSIVE Sorted(_)
Sorted(ds) == IF ds = <<>> THEN <<>> ELSE Insert(Head(ds), Sorted(Tail(ds)))

\* set(seq)
Range(seq) == {seq[i] : i \in 1..Len(seq)}

\* A local variable: v is computed once and F is the code that uses it.
Let(v, F(_)) == CHOOSE r \in {F(x) : x \in {v}} : TRUE

(***************************************************************************)
(* Key                                                                     *)
(***************************************************************************)

\* None for a tag or a regular-expression group; "tag or None" maps the
\* empty string to None, so the two are one value.
None == <<>>

\* A Python str value.
StrVal(s) == [type |-> "str", s |-> s]

\* Key(name, dims, tag, _fast=True)
KeyFast(name, dims, tag) ==
    [type |-> "Key", name |-> name, dims |-> dims, tag |-> tag]

\* EXPR.match(value): the groups, or no match.
\*   ^(?P<name>[^:]+)(:(?P<dims>([^:-]*-)*[^:-]+)?(:(?P<tag>[^:]*))?)?$
EXPR(s) ==
    Let(Split(s, ":"), LAMBDA parts :
        IF /\ Len(parts) <= 3
           /\ parts[1] # <<>>
           /\ (Len(parts) >= 2 =>
                 (parts[2] = <<>> \/ parts[2][Len(parts[2])] # "-"))
        THEN [match |-> TRUE,
              name  |-> parts[1],
              dims  |-> IF Len(parts) >= 2 THEN parts[2] ELSE None,
              tag   |-> IF Len(parts) = 3 THEN parts[3] ELSE None]
        ELSE [match |-> FALSE, name |-> None, dims |-> None, tag |-> None])

\* BARE_STR.match(value):  ^\s*(?P<name>[^:]+)\s*$
BARE_STR(s) == s # <<>> /\ ":" \notin Range(s)

\* Key._from(value) for str and Key: (name, dims, tag), or ValueError.
_from(value) ==
    IF value.type = "Key"
    THEN [err |-> "none", name |-> value.name, dims |-> value.dims, tag |-> value.tag]
    ELSE Let(EXPR(value.s), LAMBDA groups :
         IF ~groups.match
         THEN [err |-> "ValueError", name |-> None, dims |-> <<>>, tag |-> None]
         ELSE [err |-> "none",
               name |-> groups.name,
               dims |-> IF groups.dims = None THEN <<>> ELSE Split(groups.dims, "-"),
               tag  |-> groups.tag])

\* The value a failed construction or lookup yields in place of a Key.
Raised(exc) == [type |-> exc]

\* Key(name_or_value, dims, tag)
KeyInit(name_or_value, dims, tag) ==
    Let(_from(name_or_value), LAMBDA f :
        IF f.err # "none" THEN Raised(f.err)
        ELSE IF f.dims # <<>> /\ dims # <<>> THEN Raised("ValueError")
        ELSE IF f.tag # None /\ tag # None THEN Raised("ValueError")
        ELSE KeyFast(f.name,
                     IF f.dims # <<>> THEN f.dims ELSE dims,
                     IF f.tag # None THEN f.tag ELSE tag))

\* Key(value)
Key(value) == KeyInit(value, <<>>, None)

\* A string form without the tag.
StrNoTag(k) == k.name \o <<":">> \o Join(k.dims, "-")

\* Key._str
Str(k) ==
    k.name \o <<":">> \o Join(k.dims, "-")
           \o (IF k.tag # None THEN <<":">> \o k.tag ELSE <<>>)

\* Key._hash = hash(self._str), with hash() injective on strings.
KeyHash(k) == Str(k)

\* hash(value) for a str or a Key.
Hash(value) == IF value.type = "Key" THEN KeyHash(value) ELSE value.s

\* Key.__eq__(self, other)
KeyEq(self, other) ==
    Let(Key(other), LAMBDA o :
        /\ o.type = "Key"
        /\ self.name = o.name
        /\ Range(self.dims) = Range(o.dims)
        /\ self.tag = o.tag)

\* a == b for str and Key values: Key.__eq__ decides when either is a Key.
PyEq(a, b) ==
    IF a.type = "Key" \/ b.type = "Key"
    THEN KeyEq(IF a.type = "Key" THEN a ELSE b, IF a.type = "Key" THEN b ELSE a)
    ELSE a.s = b.s

\* Key.bare_name(value) is not None
IsBare(value) == value.type = "str" /\ BARE_STR(value.s)

\* Key.sorted
KeySorted(k) == KeyFast(k.name, Sorted(k.dims), k.tag)

\* Key.drop(True) and Key.drop_all()
drop_all(k) == KeyFast(k.name, <<>>, k.tag)

\* format(n, "0{len}b"): the binary digits of n < 2^len, padded to len.
RECURSIVE Binary(_, _)
Binary(n, len) == IF len = 0 THEN <<>> ELSE Binary(n \div 2, len - 1) \o <<n % 2>>

\* itertools.compress(data, selectors)
RECURSIVE compress(_, _)
compress(data, selectors) ==
    IF data = <<>> THEN <<>>
    ELSE (IF Head(selectors) THEN <<Head(data)>> ELSE <<>>)
         \o compress(Tail(data), Tail(selectors))

\* The pair of lists for the number n: the elements at the digits 1 and
\* those at the digits 0.
Partition(iterable, n) ==
    Let(Binary(n, Len(iterable)), LAMBDA bits :
        <<compress(iterable, [i \in DOMAIN bits |-> bits[i] = 1]),
          compress(iterable, [i \in DOMAIN bits |-> bits[i] = 0])>>)

\* The pairs for range(2 ** len(iterable)): the last keeps every element.
combo_partition_all(iterable) ==
    [i \in 1..2 ^ Len(iterable) |-> Partition(iterable, i - 1)]

\* combo_partition(iterable): the pairs for range(2 ** len(iterable) - 1).
combo_partition(iterable) ==
    [i \in 1..2 ^ Len(iterable) - 1 |-> Partition(iterable, i - 1)]

\* Key.iter_sums(): the partial key, the dimensions that the task sums
\* over, and the key that is summed.
iter_sums(k) ==
    Let(combo_partition(k.dims), LAMBDA pairs :
        [i \in DOMAIN pairs |->
            [key |-> KeyFast(k.name, pairs[i][1], k.tag),
             dimensions |-> pairs[i][2],
             source |-> k]])

\* Key.drop(*dims)
drop(k, dims) == KeyFast(k.name, SelectSeq(k.dims, LAMBDA d : d \notin dims), k.tag)

\* A str or a Key, as opposed to None or a raised exception.
IsKeyLike(v) == v.type \in {"Key", "str"}

(***************************************************************************)
(* dict                                                                    *)
(***************************************************************************)

\* A dict is a function from the hash of a key to the (key, value) entry.
EmptyDict == <<>>

Put(d, slot, entry) ==
    [x \in DOMAIN d \cup {slot} |-> IF x = slot THEN entry ELSE d[x]]

\* del d[key] and d.pop(key, None) for the slot of key
Remove(d, slot) == [x \in DOMAIN d \ {slot} |-> d[x]]

Entry(key, value) == [key |-> key, value |-> value]

\* dict.__contains__: same hash and equal.
DictHas(d, key) ==
    Let(Hash(key), LAMBDA h : h \in DOMAIN d /\ PyEq(d[h].key, key))

\* dict.__setitem__: an existing entry keeps its key object.
DictSet(d, key, value) ==
    Let(Hash(key), LAMBDA h :
        Put(d, h, Entry(IF DictHas(d, key) THEN d[h].key ELSE key, value)))

\* dict.get(key) for a dict whose values are keys; NoKey stands for None.
NoKey == [type |-> "None"]

DictGet(d, key) == IF DictHas(d, key) THEN d[Hash(key)].value ELSE NoKey

(***************************************************************************)
(* Graph                                                                   *)
(***************************************************************************)

\* Graph(): the mapping and the two indices.
EmptyGraph == [items |-> EmptyDict, _unsorted |-> EmptyDict, _full |-> EmptyDict]

_key_arg(key) == IF IsBare(key) THEN StrVal(key.s) ELSE Key(key)

\* An index whose full entry is the latest key, whatever its number of dims.
_index_latest(G, key) ==
    Let(_key_arg(key), LAMBDA k :
        IF k.type = "Key"
        THEN [G EXCEPT !._unsorted = DictSet(@, KeySorted(k), k),
                       !._full = Put(@, Hash(drop_all(k)), Entry(drop_all(k), k))]
        ELSE IF k.type = "str"
        THEN [G EXCEPT !._unsorted = Put(@, Hash(k), Entry(k, key))]
        ELSE G)

\* Graph._index
_index(G, key) ==
    Let(_key_arg(key), LAMBDA k :
        IF k.type = "Key"
        THEN Let(DictGet(G._full, drop_all(k)), LAMBDA cur :
                 [G EXCEPT !._unsorted = DictSet(@, KeySorted(k), k),
                           !._full = IF Len(k.dims) >=
                                        (IF cur.type = "Key" THEN Len(cur.dims) ELSE 0)
                                     THEN Put(@, Hash(drop_all(k)), Entry(drop_all(k), k))
                                     ELSE @])
        ELSE IF k.type = "str"
        THEN [G EXCEPT !._unsorted = Put(@, Hash(k), Entry(k, key))]
        ELSE G)

\* Graph._deindex
_deindex(G, key) ==
    Let(_key_arg(key), LAMBDA k :
        IF k.type = "Key"
        THEN [G EXCEPT !._unsorted = Remove(@, Hash(KeySorted(k))),
                       !._full = Remove(@, Hash(drop_all(k)))]
        ELSE IF k.type = "str"
        THEN [G EXCEPT !._unsorted = Remove(@, Hash(k))]
        ELSE G)

\* Graph.__setitem__
__setitem__(G, key, value) ==
    _index([G EXCEPT !.items = DictSet(@, key, value)], key)

\* Graph.__delitem__: the resulting graph and the exception raised, if any.
__delitem__(G, key) ==
    IF DictHas(G.items, key)
    THEN [G |-> _deindex([G EXCEPT !.items = Remove(@, Hash(key))], key),
          exc |-> "none"]
    ELSE [G |-> G, exc |-> "KeyError"]

\* Graph.pop(key) and Graph.pop(key, default): the indices are updated in a
\* finally block, whether or not the mapping held the key.
pop(G, key, hasDefault) ==
    Let(DictHas(G.items, key), LAMBDA found :
        [G |-> _deindex([G EXCEPT !.items = IF found THEN Remove(@, Hash(key)) ELSE @],
                        key),
         exc |-> IF found \/ hasDefault THEN "none" ELSE "KeyError"])

\* The key as it is given, when the index holds its set of dims.
unsorted_key_given(G, key) ==
    Let(_key_arg(key), LAMBDA k :
        IF IsKeyLike(k) /\ k.type = "Key" /\ DictHas(G._unsorted, KeySorted(k))
        THEN k
        ELSE IF IsKeyLike(k) THEN DictGet(G._unsorted, k)
        ELSE k)

\* Graph.unsorted_key
unsorted_key(G, key) ==
    Let(_key_arg(key), LAMBDA k :
        IF IsKeyLike(k)
        THEN DictGet(G._unsorted, IF k.type = "Key" THEN KeySorted(k) ELSE k)
        ELSE k)

\* Graph.full_key
full_key(G, name_or_key) ==
    Let(Key(name_or_key), LAMBDA k :
        IF k.type = "Key" THEN DictGet(G._full, drop_all(k)) ELSE k)

\* infer that drops the dims that are not in dims even when dims is empty.
infer_unguarded(G, key, dims) ==
    Let(unsorted_key(G, key), LAMBDA u :
    Let(IF IsKeyLike(u) THEN u ELSE key, LAMBDA found :
    Let(IF key.type = "str" \/ key.dims = <<>> THEN full_key(G, found) ELSE found,
        LAMBDA result :
            IF result.type # "Key" THEN (IF result = NoKey THEN key ELSE result)
            ELSE drop(result, Range(result.dims) \ dims))))

\* Graph.infer(key, dims)
infer(G, key, dims) ==
    Let(unsorted_key(G, key), LAMBDA u :
    Let(IF IsKeyLike(u) THEN u ELSE key, LAMBDA found :
    Let(IF key.type = "str" \/ key.dims = <<>> THEN full_key(G, found) ELSE found,
        LAMBDA result :
            IF result.type # "Key" THEN (IF result = NoKey THEN key ELSE result)
            ELSE IF dims # {} THEN drop(result, Range(result.dims) \ dims)
            ELSE result)))

\* dict.__contains__ alone: the key as it was stored.
dict_contains(G, item) == DictHas(G.items, item)

\* Graph.__contains__
__contains__(G, item) ==
    DictHas(G.items, item) \/ IsKeyLike(unsorted_key(G, item))

\* The loop of Graph.update over chain(kwargs.keys(), arg_keys).
RECURSIVE IndexAll(_, _)
IndexAll(G, keys) ==
    IF keys = <<>> THEN G ELSE IndexAll(_index(G, Head(keys)), Tail(keys))

\* dict.update(pairs): store every pair in order.
RECURSIVE StoreAll(_, _)
StoreAll(d, pairs) ==
    IF pairs = <<>> THEN d
    ELSE StoreAll(DictSet(d, Head(pairs).key, Head(pairs).value), Tail(pairs))

\* The argument of Graph.update: a "Mapping", a "Sequence" or a "Generator",
\* with the (key, value) pairs that iterating over it yields.
Arg(kind, pairs) == [kind |-> kind, pairs |-> pairs]

\* Two passes over arg itself: a generator yields nothing the second time.
tee_none(arg) == <<arg.pairs, IF arg.kind = "Generator" THEN <<>> ELSE arg.pairs>>

\* itertools.tee(arg): two iterators, each over every pair of arg.
tee(arg) == <<arg.pairs, arg.pairs>>

\* Graph.update(arg, **kwargs): arg0 gives the keys and arg1 the pairs; for
\* a mapping both are the mapping itself (None is the empty mapping).  Every
\* key is indexed, those of kwargs first, then dict.update stores arg1 and
\* then kwargs.
update(G, arg, kwargs) ==
    Let(IF arg.kind \in {"Sequence", "Generator"} THEN tee(arg)
        ELSE <<arg.pairs, arg.pairs>>, LAMBDA args :
        [IndexAll(G, [i \in 1..Len(kwargs \o args[1]) |-> (kwargs \o args[1])[i].key])
            EXCEPT !.items = StoreAll(@, args[2] \o kwargs)])

\* Graph(*args, **kwargs): dict.__init__ stores the pairs of the positional
\* argument and then kwargs; the indices start empty and the keys of kwargs
\* are indexed.
__init__(arg, kwargs) ==
    IndexAll([EmptyGraph EXCEPT !.items = StoreAll(@, arg.pairs \o kwargs)],
             [i \in 1..Len(kwargs) |-> kwargs[i].key])

(***************************************************************************)
(* Computer: insertion                                                     *)
(***************************************************************************)

\* logging levels
DEBUG == 10
INFO == 20
ERROR == 40

\* getattr(logging, fail.upper(), logging.ERROR)
LoggingLevel(name) ==
    CASE name = "debug"    -> DEBUG
      [] name = "info"     -> INFO
      [] name = "warning"  -> 30
      [] name = "error"    -> ERROR
      [] name = "critical" -> 50
      [] OTHER             -> ERROR

\* The fail argument of add_queue: None, a str or an int.
FailNone == [type |-> "None"]
FailStr(name) == [type |-> "str", s |-> name]
FailInt(level) == [type |-> "int", v |-> level]

\* The leftmost element of the stack: the default, whatever the outer call.
InheritBottom(qf) == qf[1]

\* "Use the same value as an outer call": the rightmost element of the stack.
Inherit(qf) == qf[Len(qf)]

\* The action when queue items fail, from the fail argument.
ResolveFail(fail, qf) ==
    IF fail.type = "str" THEN LoggingLevel(fail.s)
    ELSE IF fail.type = "None" THEN Inherit(qf)
    ELSE fail.v

\* An exception, with the keys it names; NoExc stands for no exception.
Exc(type, keys) == [type |-> type, keys |-> keys]

NoExc == Exc("none", <<>>)

\* "except Exception": every exception is caught.
IsException(exc) == exc.type # "none"

\* isinstance(exc, KeyError): MissingKeyError and KeyExistsError are caught
\* by "except KeyError", like the KeyError of Computer.full_key.
IsKeyError(exc) == exc.type \in {"KeyError", "MissingKeyError", "KeyExistsError"}

\* The elements of a computation other than keys: a callable and a literal.
Func(name) == [type |-> "func", name |-> name]

Literal(v) == [type |-> "int", v |-> v]

callable(e) == e.type = "func"

\* A callable that returns a value and one that raises when it is called.
Compute == Func("compute")

Broken == Func("broken")

\* dict(): the value of "config" in a new Computer.
dict == [type |-> "dict"]

\* A computation that is a tuple: a callable and its arguments.
Task(computation) == [type |-> "tuple", elems |-> computation]

\* "Unpack a length-1 tuple": *computation as add_single stores it.
Unpack(computation) ==
    IF Len(computation) = 1 /\ ~callable(computation[1]) THEN computation[1]
    ELSE Task(computation)

\* The result of a call: the graph, the exception raised if any, and the
\* key(s) returned.
Result(G, exc, keys) == [G |-> G, exc |-> exc, keys |-> keys]

\* _check(value) of Computer.check_keys
_check(G, value) ==
    Let(unsorted_key(G, value), LAMBDA u :
        IF IsKeyLike(u) THEN u ELSE full_key(G, value))

\* Computer.check_keys(*keys): the checked keys, in order.
check_keys(G, keys) == [i \in 1..Len(keys) |-> _check(G, keys[i])]

\* The first of the keys at the positions where checked holds None.
MissingFirst(keys, checked) ==
    IF \E i \in 1..Len(keys) : checked[i] = NoKey
    THEN <<keys[CHOOSE i \in 1..Len(keys) :
                  checked[i] = NoKey /\ \A j \in 1..i - 1 : checked[j] # NoKey]>>
    ELSE <<>>

\* The subsequence of keys at the positions where checked holds None.
RECURSIVE Missing(_, _)
Missing(keys, checked) ==
    IF keys = <<>> THEN <<>>
    ELSE (IF Head(checked) = NoKey THEN <<Head(keys)>> ELSE <<>>)
         \o Missing(Tail(keys), Tail(checked))

\* compress(computation, is_keylike): the key-like elements, in order.
Refs(computation) == SelectSeq(computation, IsKeyLike)

\* The computation with its key-like elements replaced by the checked keys.
RECURSIVE Rewrite(_, _)
Rewrite(computation, checked) ==
    IF computation = <<>> THEN <<>>
    ELSE IF IsKeyLike(Head(computation))
    THEN <<Head(checked)>> \o Rewrite(Tail(computation), Tail(checked))
    ELSE <<Head(computation)>> \o Rewrite(Tail(computation), checked)

\* The keys that _rewrite_comp runs through check_keys: those of a tuple.
Checkable(comp) == IF comp.type = "tuple" THEN Refs(comp.elems) ELSE <<>>

\* An add_single that indexes the key before the strict checks.
add_single_indexed(G, key, computation, strict) ==
    Let(_key_arg(key), LAMBDA k :
    Let(Unpack(computation), LAMBDA comp :
    Let(check_keys(G, Checkable(comp)), LAMBDA checked :
        IF ~IsKeyLike(k) THEN Result(G, Exc(k.type, <<>>), <<>>)
        ELSE IF strict /\ __contains__(G, k)
        THEN Result(_index(G, k), Exc("KeyExistsError", <<k>>), <<>>)
        ELSE IF strict /\ \E i \in 1..Len(checked) : checked[i].type = "ValueError"
        THEN Result(G, Exc("ValueError", <<>>), <<>>)
        ELSE IF strict /\ \E i \in 1..Len(checked) : checked[i] = NoKey
        THEN Result(_index(G, k), Exc("MissingKeyError", Missing(Checkable(comp), checked)),
                    <<>>)
        ELSE Result(__setitem__(G, k, IF strict /\ comp.type = "tuple"
                                      THEN Task(Rewrite(comp.elems, checked))
                                      ELSE comp),
                    NoExc, <<k>>))))

\* Computer.add_single(key, *computation, strict=strict)
add_single(G, key, computation, strict) ==
    Let(_key_arg(key), LAMBDA k :
    Let(Unpack(computation), LAMBDA comp :
    Let(check_keys(G, Checkable(comp)), LAMBDA checked :
        IF ~IsKeyLike(k) THEN Result(G, Exc(k.type, <<>>), <<>>)
        ELSE IF strict /\ __contains__(G, k)
        THEN Result(G, Exc("KeyExistsError", <<k>>), <<>>)
        ELSE IF strict /\ \E i \in 1..Len(checked) : checked[i].type = "ValueError"
        THEN Result(G, Exc("ValueError", <<>>), <<>>)
        ELSE IF strict /\ \E i \in 1..Len(checked) : checked[i] = NoKey
        THEN Result(G, Exc("MissingKeyError", Missing(Checkable(comp), checked)),
                    <<>>)
        ELSE Result(__setitem__(G, k, IF strict /\ comp.type = "tuple"
                                      THEN Task(Rewrite(comp.elems, checked))
                                      ELSE comp),
                    NoExc, <<k>>))))

\* Computer.full_key(name_or_key)
Computer_full_key(G, name_or_key) ==
    Let(full_key(G, name_or_key), LAMBDA result :
        IF result = NoKey THEN Result(G, Exc("KeyError", <<name_or_key>>), <<>>)
        ELSE IF ~IsKeyLike(result) THEN Result(G, Exc(result.type, <<>>), <<>>)
        ELSE Result(G, NoExc, <<result>>))

\* The positional and keyword arguments of one call of Computer.add:
\*   a key and a computation;  the name of a method and its argument;
\*   a list, max_tries and fail.
AddKey(key, computation, strict) ==
    [kind |-> "key", key |-> key, computation |-> computation, strict |-> strict]

AddMethod(name, arg) == [kind |-> "method", name |-> name, arg |-> arg]

AddList(queue, max_tries, fail) ==
    [kind |-> "list", queue |-> queue, max_tries |-> max_tries, fail |-> fail]

\* An add that stores the key before it finds a reference missing.
add_store_first(G, args) ==
    IF args.kind = "method" THEN Computer_full_key(G, args.arg)
    ELSE Let(add_single(G, args.key, args.computation, args.strict), LAMBDA r :
             IF r.exc.type = "MissingKeyError"
             THEN [r EXCEPT !.G = __setitem__(G, args.key, Task(args.computation))]
             ELSE r)

\* Computer.add(*args, **kwargs) for arguments other than a list.
add(G, args) ==
    IF args.kind = "method" THEN Computer_full_key(G, args.arg)
    ELSE add_single(G, args.key, args.computation, args.strict)

\* The key of the configuration.
config == StrVal(<<"c", "o", "n", "f", "i", "g">>)

\* Computer.check_keys(*keys, action=action): the list returned or the
\* exception raised; NoKey in place of the list stands for returning None.
Computer_check_keys(G, keys, action) ==
    Let(check_keys(G, keys), LAMBDA result :
        IF \E i \in 1..Len(result) : result[i].type = "ValueError"
        THEN Result(G, Exc("ValueError", <<>>), <<>>)
        ELSE IF \E i \in 1..Len(result) : result[i] = NoKey
        THEN IF action = "raise"
             THEN Result(G, Exc("MissingKeyError", Missing(keys, result)), <<>>)
             ELSE Result(G, NoExc, NoKey)
        ELSE Result(G, NoExc, result))

\* A generator function given to apply: its parameters ("keys" for *keys,
\* "none" for no parameter) and what a call of it returns:
\*   "yield"   a generator of the one pair (target, (Compute, *args));
\*   "list"    a list of that pair;
\*   "empty"   a generator that yields nothing;
\*   "return"  None.
\* No generator takes the Computer as its first parameter.
Generator(name, params, returns, target) ==
    [type |-> "function", name |-> name, params |-> params, returns |-> returns,
     target |-> target]

\* A generator function whose calls always yield the pair.
applied_yield(generator, args) ==
    Arg("Generator", <<Entry(generator.target, Task(<<Compute>> \o args))>>)

\* applied = generator(*args, **kwargs)
applied(generator, args) ==
    IF generator.returns = "yield"
    THEN Arg("Generator", <<Entry(generator.target, Task(<<Compute>> \o args))>>)
    ELSE IF generator.returns = "list"
    THEN Arg("Sequence", <<Entry(generator.target, Task(<<Compute>> \o args))>>)
    ELSE IF generator.returns = "empty"
    THEN Arg("Generator", <<>>)
    ELSE NoKey

\* bool(x) of what a generator function returns: None and an empty list
\* are false, a generator object is true.
truth(x) ==
    IF x = NoKey THEN FALSE
    ELSE IF x.kind = "Generator" THEN TRUE
    ELSE x.pairs # <<>>

\* Computer.apply(generator, *keys): check_keys, the call of the generator,
\* which raises TypeError when it is given more arguments than it has
\* parameters, and the update of the graph with what it returned.
apply(G, generator, keys) ==
    Let(Computer_check_keys(G, keys, "raise"), LAMBDA args :
        IF args.exc # NoExc THEN args
        ELSE IF generator.params = "none" /\ args.keys # <<>>
        THEN Result(G, Exc("TypeError", <<>>), <<>>)
        ELSE Let(applied(generator, args.keys), LAMBDA result :
                 IF truth(result) THEN Result(update(G, result, <<>>), NoExc, <<>>)
                 ELSE Result(G, NoExc, <<>>)))

\* dask.core.quote(x): a task that returns x without interpreting it.
quote(x) == [type |-> "quote", data |-> x]

\* The arguments of a stored computation: those of a tuple that starts with
\* a callable, or the computation itself.
Arguments(comp) == IF comp.type = "tuple" THEN Tail(comp.elems) ELSE <<comp>>

\* The references of a stored computation to keys of the Graph G: the
\* arguments w with "w in G", which holds in any order of the dims.
Dependencies(G, comp) ==
    SelectSeq(Arguments(comp), LAMBDA w : IsKeyLike(w) /\ __contains__(G, w))

\* The references of a stored computation to keys of the culled mapping
\* dsk, a plain dict: the arguments w with "w in dsk".
Needs(dsk, comp) ==
    SelectSeq(Arguments(comp), LAMBDA w : IsKeyLike(w) /\ DictHas(dsk, w))

\* cull(dsk, key): the keys reached from the keys of work, each with its
\* computation dsk[k], or KeyError at a key that the mapping does not hold.
RECURSIVE cull_work(_, _, _)
cull_work(G, work, out) ==
    IF work = <<>> THEN [dsk |-> out, exc |-> NoExc]
    ELSE IF DictHas(out, Head(work)) THEN cull_work(G, Tail(work), out)
    ELSE IF ~DictHas(G.items, Head(work))
    THEN [dsk |-> out, exc |-> Exc("KeyError", <<Head(work)>>)]
    ELSE Let(DictGet(G.items, Head(work)), LAMBDA comp :
            cull_work(G, Tail(work) \o Dependencies(G, comp),
                      DictSet(out, Head(work), comp)))

\* The graph given whole to the scheduler.
cull_nothing(G, key) == [dsk |-> G.items, exc |-> NoExc]

cull(G, key) == cull_work(G, <<key>>, EmptyDict)

\* The state of one execution: the results by key, the exception raised by
\* a task if any, and the keys of the tasks invoked, in order.
Execution(cache, exc, invoked) == [cache |-> cache, exc |-> exc, invoked |-> invoked]

\* The value of an argument of a task: the result at a key of dsk, or itself.
Value(run, dsk, w) ==
    IF IsKeyLike(w) /\ DictHas(dsk, w) THEN DictGet(run.cache, w) ELSE w

\* Calling the callable of the task at key k: Broken raises.
Invoke(run, dsk, k, comp) ==
    IF Head(comp.elems) = Broken
    THEN Execution(run.cache, Exc("Exception", <<k>>), Append(run.invoked, k))
    ELSE Execution(DictSet(run.cache, k,
                     [type |-> "result",
                      args |-> [i \in 1..Len(comp.elems) - 1 |->
                                   Value(run, dsk, comp.elems[i + 1])]]),
             NoExc, Append(run.invoked, k))

\* The scheduler computes each key of work after the keys it refers to,
\* each key once, and stops at the first exception.
RECURSIVE execute(_, _, _)
execute(dsk, work, run) ==
    IF work = <<>> \/ run.exc # NoExc THEN run
    ELSE IF DictHas(run.cache, Head(work)) THEN execute(dsk, Tail(work), run)
    ELSE Let(DictGet(dsk, Head(work)), LAMBDA comp :
         Let(execute(dsk, Needs(dsk, comp), run), LAMBDA r :
            execute(dsk, Tail(work),
                IF r.exc # NoExc THEN r
                ELSE IF comp.type = "quote"
                THEN Execution(DictSet(r.cache, Head(work), comp.data), NoExc, r.invoked)
                ELSE IF comp.type = "tuple" THEN Invoke(r, dsk, Head(work), comp)
                ELSE Execution(DictSet(r.cache, Head(work), Value(r, dsk, comp)),
                         NoExc, r.invoked))))

\* The keys of a dict, in a sequence.
Keys(d) ==
    CHOOSE p \in [1..Cardinality(DOMAIN d) -> {d[h].key : h \in DOMAIN d}] :
        \A h \in DOMAIN d : \E i \in DOMAIN p : p[i] = d[h].key

\* dask_get(dsk, key): every task of dsk is computed; the result is the one
\* at key.
dask_get(dsk, key) ==
    Let(execute(dsk, Keys(dsk), Execution(EmptyDict, NoExc, <<>>)), LAMBDA run :
        [value |-> IF run.exc = NoExc THEN DictGet(run.cache, key) ELSE NoKey,
         exc |-> run.exc, invoked |-> run.invoked])

\* The outcome of Computer.get: the graph, the exception raised if any, the
\* result, and the keys of the tasks invoked, in order.
Got(G, exc, value, invoked) ==
    [G |-> G, exc |-> exc, value |-> value, invoked |-> invoked]

\* "raise ComputationError(exc)"
ComputationError(exc) == Exc("ComputationError", <<exc>>)

\* The exception of the task raised as it is.
NotWrapped(exc) == exc

Wrapped(exc) == IF exc = NoExc THEN NoExc ELSE ComputationError(exc)

\* graph.get("config", dict())
GetConfig(G) == IF DictHas(G.items, config) THEN DictGet(G.items, config) ELSE dict

\* Computer.get(key), from the line that wraps "config": key is resolved.
get_key(G, key) ==
    Let(__setitem__(G, config, quote(GetConfig(G))), LAMBDA Gq :
    Let(cull(Gq, key), LAMBDA c :
        IF c.exc # NoExc THEN Got(Gq, c.exc, NoKey, <<>>)
        ELSE Let(dask_get(c.dsk, key), LAMBDA r :
                Got(__setitem__(Gq, config, GetConfig(Gq).data), Wrapped(r.exc),
                    r.value, r.invoked))))

\* Computer.get(key), with self.default_key = default; NoKey stands for None.
get(G, default, key) ==
    IF key = NoKey
    THEN IF default # NoKey THEN get_key(G, default)
         ELSE Got(G, Exc("ValueError", <<>>), NoKey, <<>>)
    ELSE Let(Computer_check_keys(G, <<key>>, "raise"), LAMBDA checked :
            IF checked.exc # NoExc THEN Got(G, checked.exc, NoKey, <<>>)
            ELSE get_key(G, checked.keys[1]))

\* Item(value): the container for queue items; id is the position of the
\* value in the queue and exc is the exception of the latest failed attempt.
Item(value, id) == [value |-> value, count |-> 1, id |-> id, exc |-> "none"]

NoItem == [value |-> [kind |-> "none"], count |-> 0, id |-> 0, exc |-> "none"]

\* One activation of add_queue: its arguments and local variables.  entry is
\* the stack _queue_fail at the call, tries counts the attempts per item, and
\* item is the item whose nested add_queue call is in progress.
Frame(queue, max_tries, fail, qf) ==
    [queue     |-> [i \in 1..Len(queue) |-> Item(queue[i], i)],
     max_tries |-> max_tries,
     failArg   |-> fail,
     fail      |-> ResolveFail(fail, qf),
     added     |-> <<>>,
     item      |-> NoItem,
     entry     |-> qf,
     tries     |-> [i \in 1..Len(queue) |-> 0]]

\* A retry condition that gives up one attempt early.
MayRetryEarly(item, max_tries) == item.count + 1 < max_tries

\* A retry condition that allows one attempt too many.
MayRetryLate(item, max_tries) == item.count <= max_tries

\* "if item.count < max_tries": the item is retried.
MayRetry(item, max_tries) == item.count < max_tries

\* A threshold that leaves out logging.ERROR itself.
ShouldRaiseAbove(fail) == fail > ERROR

\* "if fail >= logging.ERROR: raise"
ShouldRaise(fail) == fail >= ERROR

\* A finally clause that does not restore the stack.
PopFailNone(qf) == qf

\* self._queue_fail.pop()
PopFail(qf) == SubSeq(qf, 1, Len(qf) - 1)

\* _log(...): the record of one log message.
LogRecord(level, item, max_tries, exc, depth) ==
    [level |-> level, count |-> item.count, max_tries |-> max_tries,
     id |-> item.id, exc |-> exc, depth |-> depth]

\* A loop that puts the item to retry at the head of the queue.
HandleFront(f, item, exc, keys, depth) ==
    IF exc.type = "none"
    THEN [frame |-> [f EXCEPT !.added = @ \o keys], raise |-> FALSE, log |-> <<>>]
    ELSE IF ~IsKeyError(exc)
    THEN [frame |-> f, raise |-> TRUE, log |-> <<>>]
    ELSE IF MayRetry(item, f.max_tries)
    THEN [frame |-> [f EXCEPT !.queue =
                        <<[item EXCEPT !.count = @ + 1, !.exc = exc.type]>> \o @],
          raise |-> FALSE, log |-> <<>>]
    ELSE [frame |-> f, raise |-> ShouldRaise(f.fail),
          log |-> <<LogRecord(f.fail, item, f.max_tries, exc, depth)>>]

\* The except / else clauses of the loop of add_queue, for an attempt of
\* item that raised exc (or returned keys): the frame afterwards, whether the
\* exception leaves add_queue, and the messages logged.
Handle(f, item, exc, keys, depth) ==
    IF exc.type = "none"
    THEN [frame |-> [f EXCEPT !.added = @ \o keys], raise |-> FALSE, log |-> <<>>]
    ELSE IF ~IsKeyError(exc)
    THEN [frame |-> f, raise |-> TRUE, log |-> <<>>]
    ELSE IF MayRetry(item, f.max_tries)
    THEN [frame |-> [f EXCEPT !.queue =
                        Append(@, [item EXCEPT !.count = @ + 1, !.exc = exc.type])],
          raise |-> FALSE, log |-> <<>>]
    ELSE [frame |-> f, raise |-> ShouldRaise(f.fail),
          log |-> <<LogRecord(f.fail, item, f.max_tries, exc, depth)>>]

\* partial(computations.sum, dimensions=others, weights=None)
sum_partial(dimensions) == [type |-> "func", name |-> "sum", dimensions |-> dimensions]

\* A queue without the sum over every dimension.
SumQueueNoTotal(key) ==
    Let(SelectSeq(iter_sums(key), LAMBDA e : e.key.dims # <<>>), LAMBDA sums :
        [i \in DOMAIN sums |->
            AddKey(sums[i].key, <<sum_partial(sums[i].dimensions), sums[i].source>>,
                   FALSE)])

\* The queue that Computer.add gives to add_queue for sums=True: one item
\* (key, partial(sum, ...), self) per entry of key.iter_sums(), with no
\* keyword arguments.
SumQueue(key) ==
    Let(iter_sums(key), LAMBDA sums :
        [i \in DOMAIN sums |->
            AddKey(sums[i].key, <<sum_partial(sums[i].dimensions), sums[i].source>>,
                   FALSE)])

\* The loop of add_queue for a queue whose items are not lists, with the
\* locals f: each pass calls add and runs the except or else clause.
RECURSIVE add_queue_loop(_, _)
add_queue_loop(G, f) ==
    IF f.queue = <<>> THEN Result(G, NoExc, f.added)
    ELSE Let(Head(f.queue), LAMBDA item :
         Let(add(G, item.value), LAMBDA r :
         Let(Handle([f EXCEPT !.queue = Tail(@), !.tries[item.id] = @ + 1],
                    item, r.exc, r.keys, 1), LAMBDA h :
            IF h.raise THEN Result(r.G, r.exc, <<>>)
            ELSE add_queue_loop(r.G, h.frame))))

\* Computer.add(key, *computation, strict=strict, sums=sums), with
\* _queue_fail = qf: add_single, then add_queue(key.iter_sums(), fail="fail").
add_key(G, key, computation, strict, sums, qf) ==
    Let(add_single(G, key, computation, strict), LAMBDA result :
        IF result.exc # NoExc \/ ~sums THEN result
        ELSE Let(add_queue_loop(result.G,
                     Frame(SumQueue(Key(key)), 1, FailStr("fail"), qf)),
                 LAMBDA added :
                    IF added.exc # NoExc THEN added
                    ELSE Result(added.G, NoExc, result.keys \o added.keys)))

(***************************************************************************)
(* caching                                                                 *)
(***************************************************************************)

\* A pathlib.Path with the string form s.
PathVal(s) == [type |-> "Path", s |-> s]

\* The pieces of a JSON text: punctuation, a number and a string.
Punct(c) == [json |-> "punct", c |-> c]

\* PathEncoder and json.dumps for one value: an int is written as a number,
\* a str as a string and a Path as the string str(path).
json_value(o) ==
    IF o.type = "int" THEN <<[json |-> "number", n |-> o.v]>>
    ELSE <<[json |-> "string", s |-> o.s]>>

\* The texts of items, separated by ", ".
RECURSIVE json_join(_)
json_join(items) ==
    IF items = <<>> THEN <<>>
    ELSE IF Len(items) = 1 THEN Head(items)
    ELSE Head(items) \o <<Punct(", ")>> \o json_join(Tail(items))

\* json.dumps(args, cls=PathEncoder) for the tuple args: a JSON array.
dumps_args(args) ==
    <<Punct("[")>> \o json_join([i \in DOMAIN args |-> json_value(args[i])])
                  \o <<Punct("]")>>

\* One keyword argument.
Kwarg(name, value) == [name |-> name, value |-> value]

\* json.dumps(kwargs, cls=PathEncoder) for the dict kwargs, given by its
\* items in the order of the dict: a JSON object, with the items in that
\* order.
dumps_kwargs(kwargs) ==
    <<Punct("{")>>
    \o json_join([i \in DOMAIN kwargs |->
                    <<[json |-> "string", s |-> kwargs[i].name], Punct(": ")>>
                    \o json_value(kwargs[i].value)])
    \o <<Punct("}")>>

\* sha1(text.encode()).hexdigest(), with sha1 injective: the digest of a
\* text is the text itself.
sha1(text) == text

\* arg_hash(*args, **kwargs)
arg_hash(args, kwargs) ==
    sha1(IF Len(args) + Len(kwargs) = 0 THEN <<>>
         ELSE dumps_args(args) \o dumps_kwargs(kwargs))

\* The dict at "config", by its entries; cfg.get(name, default).
ConfigDict(entries) == [type |-> "dict", entries |-> entries]

config_get(cfg, name, default) ==
    IF "entries" \in DOMAIN cfg /\ name \in DOMAIN cfg.entries
    THEN cfg.entries[name]
    ELSE default

\* Path.cwd()
cwd == PathVal(<<"c", "w", "d">>)

\* cache_path.joinpath("-".join(name_parts)).with_suffix(".pkl"), where
\* cache_path is the entry of the configuration or, without one, Path.cwd().
cache_file(cfg, name, hash) ==
    Let(config_get(cfg, "cache_path", NoKey), LAMBDA cache_path :
        [parent |-> IF cache_path = NoKey THEN cwd ELSE cache_path,
         name   |-> name,
         hash   |-> hash,
         suffix |-> ".pkl"])

\* A configuration in which the cache is always skipped.
cache_skip_always(cfg) == TRUE

\* computer.graph["config"].get("cache_skip", False)
cache_skip(cfg) == config_get(cfg, "cache_skip", FALSE)

\* A test for the file alone.
cache_hit_exists(cfg, fs, cache_path) == cache_path \in DOMAIN fs

\* "not ... .get("cache_skip", False) and cache_path.exists()"
cache_hit(cfg, fs, cache_path) == ~cache_skip(cfg) /\ cache_path \in DOMAIN fs

\* pickle.dump(data, f) and pickle.load(f)
pickle_dump(value) == [type |-> "pickle", value |-> value]

pickle_load(blob) == blob.value

\* load_func(*args, **kwargs): the value depends on the arguments and on the
\* data that the function reads.
load_func(name, args, kwargs, d) ==
    [type |-> "value", name |-> name, args |-> args, kwargs |-> kwargs, data |-> d]

\* cached_load(*args, **kwargs) for the function load_func named name, with
\* computer.graph["config"] = cfg, the files fs and the data d: the files
\* afterwards, the value returned and whether load_func was invoked.
cached_load(cfg, fs, name, args, kwargs, d) ==
    Let(cache_file(cfg, name, arg_hash(args, kwargs)), LAMBDA cache_path :
        IF cache_hit(cfg, fs, cache_path)
        THEN [files |-> fs, result |-> pickle_load(fs[cache_path]),
              invoked |-> FALSE, cache_path |-> cache_path]
        ELSE [files |-> Put(fs, cache_path, pickle_dump(load_func(name, args, kwargs, d))),
              result |-> load_func(name, args, kwargs, d),
              invoked |-> TRUE, cache_path |-> cache_path])

(***************************************************************************)
(* State                                                                   *)
(***************************************************************************)

VARIABLES
    graph,        \* the Graph: mapping, unsorted index, full index
    last,         \* the latest Graph operation and the exception it raised
    k1,           \* the input of an operation: a Key, a string, arguments
    k2,           \* the value computed from k1
    _queue_fail,  \* Computer._queue_fail: the stack of failure actions
    stack,        \* the activations of add_queue, outermost first
    pending,      \* the exception propagating between activations
    log,          \* the messages logged since the outermost call
    res,          \* the outermost call of add_queue and its outcome
    exit,         \* the latest activation of add_queue to return or raise
    ncalls,       \* number of outermost calls so far
    default_key,  \* Computer.default_key
    files,        \* the files of the file system: path -> contents
    data          \* the data that the cached functions read

vars == <<graph, last, k1, k2, _queue_fail, stack, pending, log, res, exit, ncalls,
          default_key, files, data>>

\* The variables of the Computer and of the Graph and Key operations.
cvars == <<_queue_fail, stack, pending, log, res, exit, ncalls, default_key, files, data>>

\* The file system and the data outside the Computer.
fvars == <<files, data>>

\* The variables of add_queue.
qvars == <<_queue_fail, stack, pending, log, res, exit, ncalls>>

gvars == <<last, k1, k2>>

NoCall == [queue |-> <<>>, max_tries |-> 1, fail |-> FailNone]

\* The outcome of an outermost call: G0 is the graph when it was made.
Outcome(status, call, G0, added, e, tries) ==
    [status |-> status, call |-> call, G0 |-> G0, added |-> added, exc |-> e,
     tries |-> tries]

\* The record of an activation that ended: how, the stack _queue_fail at the
\* call and at the end, and the attempts per item.
Exit(how, entry, qf, tries) ==
    [how |-> how, entry |-> entry, qf |-> qf, tries |-> tries]

\* Computer.__init__: _queue_fail = deque([logging.ERROR]); nothing is running.
\* The class attribute default_key is None.  No function was cached: the
\* directories hold no file.
InitQueue ==
    /\ default_key = NoKey
    /\ files = EmptyDict
    /\ data = 1
    /\ _queue_fail = <<ERROR>>
    /\ stack = <<>>
    /\ pending = NoExc
    /\ log = <<>>
    /\ res = Outcome("idle", NoCall, EmptyGraph, <<>>, NoExc, <<>>)
    /\ exit = Exit("none", <<>>, <<>>, <<>>)
    /\ ncalls = 0

\* Largest number of dims of a Key given to the Key operations.
MaxDims == 3

DimNames == {<<"a">>, <<"b">>, <<"c">>}

\* All sequences without repetition of at most n elements of S.
RECURSIVE Arrangements(_, _)
Arrangements(S, n) ==
    IF n = 0 THEN {<<>>}
    ELSE {<<>>} \cup UNION {{<<d>> \o r : r \in Arrangements(S \ {d}, n - 1)} : d \in S}

\* All orders of the elements of a sequence without repetition.
Orders(seq) ==
    {p \in Arrangements(Range(seq), Len(seq)) : Len(p) = Len(seq)}

\* Keys given to the Key operations.
KeyInputs ==
    {KeyFast(<<"f">>, dims, tag) :
        dims \in Arrangements(DimNames, MaxDims), tag \in {None, <<"t">>}}

\* Number of (key, value) pairs of one bulk update.
MaxPairs == 2

\* Tasks stored in the graph are literal values.
Values == {1}

\* Key objects used as inputs: dims over {a, b} in both orders, one key of
\* lower dimensionality and one with a tag.
KeyObjs ==
    {KeyFast(<<"f">>, << <<"a">> >>, None),
     KeyFast(<<"f">>, << <<"a">>, <<"b">> >>, None),
     KeyFast(<<"f">>, << <<"b">>, <<"a">> >>, None),
     KeyFast(<<"f">>, << <<"a">> >>, <<"t">>)}

\* Strings used as inputs: a bare name and a string in full key syntax.
StrObjs == {StrVal(<<"x">>), StrVal(<<"f", ":", "b", "-", "a">>)}

KeyLikes == KeyObjs \cup StrObjs

\* Keys given to a bulk update.
UpdateKeys ==
    {KeyFast(<<"f">>, << <<"a">> >>, None),
     KeyFast(<<"f">>, << <<"b">>, <<"a">> >>, None),
     StrVal(<<"f", ":", "a", "-", "b">>)}

\* Arguments of a bulk update: up to MaxPairs pairs.
PairSeqs ==
    UNION {[1..n -> {Entry(k, v) : k \in UpdateKeys, v \in Values}] : n \in 0..MaxPairs}

\* Keyword arguments of a bulk update: bare names.
KwargSeqs == {<<>>, <<Entry(StrVal(<<"x">>), 1)>>}

\* The record of a Graph operation: found tells whether the mapping held key.
Op(op, key, found, exc) == [op |-> op, key |-> key, found |-> found, exc |-> exc]

NoOp == Op("init", NoKey, FALSE, "none")

InitGraph ==
    /\ graph = EmptyGraph
    /\ last = NoOp
    /\ k1 = NoKey
    /\ k2 = NoKey
    /\ InitQueue

(***************************************************************************)
(* Graph operations                                                        *)
(***************************************************************************)

\* g[key] = value
SetItem ==
    /\ \E key \in KeyLikes, value \in Values :
        /\ graph' = __setitem__(graph, key, value)
        /\ last' = Op("set", key, DictHas(graph.items, key), "none")
    /\ UNCHANGED <<k1, k2, cvars>>

\* del g[key]
DelItem ==
    /\ \E key \in KeyLikes :
        \E r \in {__delitem__(graph, key)} :
        /\ graph' = r.G
        /\ last' = Op("del", key, DictHas(graph.items, key), r.exc)
    /\ UNCHANGED <<k1, k2, cvars>>

\* g.pop(key) and g.pop(key, default)
Pop ==
    /\ \E key \in KeyLikes, hasDefault \in BOOLEAN :
        \E r \in {pop(graph, key, hasDefault)} :
        /\ graph' = r.G
        /\ last' = Op("pop", key, DictHas(graph.items, key), r.exc)
    /\ UNCHANGED <<k1, k2, cvars>>

\* g.update(arg, **kwargs)
Update ==
    /\ \E arg \in PairSeqs, kwargs \in KwargSeqs :
        /\ graph' = update(graph, Arg("Sequence", arg), kwargs)
        /\ last' = Op("update", NoKey, FALSE, "none")
    /\ UNCHANGED <<k1, k2, cvars>>

\* Keys given to infer: a bare name and strings in full key syntax, of the
\* same name as the Key objects given to the other operations.
InferKeys ==
    KeyObjs \cup {StrVal(<<"f">>), StrVal(<<"f", ":", "a">>),
                  StrVal(<<"f", ":", "b", "-", "a">>)}

\* g.infer(key, dims), for the keys above and for their full keys.
Infer ==
    /\ \E k \in InferKeys, dims \in {{}, {<<"a">>}} :
        \E key \in {k} \cup ({full_key(graph, k)} \ {NoKey}) :
            /\ dims # {} => key = StrVal(<<"f">>)
            /\ last' = [op |-> "infer", key |-> key, dims |-> dims,
                        found |-> DictHas(graph.items, key), exc |-> "none",
                        result |-> infer(graph, key, dims)]
    /\ UNCHANGED <<graph, k1, k2, cvars>>

NextGraph == SetItem \/ DelItem \/ Pop \/ Update \/ Infer

SpecGraph == InitGraph /\ [][NextGraph]_vars

(***************************************************************************)
(* Graph.update                                                            *)
(***************************************************************************)

\* The pairs are the items of a dict: no two keys share a slot.
IsDict(pairs) ==
    \A i, j \in 1..Len(pairs) : i # j => Hash(pairs[i].key) # Hash(pairs[j].key)

\* The arguments of update: one pair, and two pairs with different values,
\* so that the second pair may replace the value of the first.
UpdateArgs ==
    {Arg(kind, pairs) :
        kind \in {"Mapping", "Sequence", "Generator"},
        pairs \in {<<Entry(k, 1)>> : k \in UpdateKeys}
                  \cup {<<Entry(k, 1), Entry(l, 2)>> : k \in UpdateKeys, l \in UpdateKeys}}

\* g.update(arg) for a mapping, a sequence and a generator of pairs.
UpdateArg ==
    /\ \E arg \in UpdateArgs :
        /\ arg.kind = "Mapping" => IsDict(arg.pairs)
        /\ graph' = update(graph, arg, <<>>)
        /\ last' = [op |-> "update", key |-> NoKey, found |-> FALSE, exc |-> "none",
                    arg |-> arg]
    /\ UNCHANGED <<k1, k2, cvars>>

NextUpdate == UpdateArg \/ DelItem

SpecUpdate == InitGraph /\ [][NextUpdate]_vars

(***************************************************************************)
(* Graph construction and insertion                                        *)
(***************************************************************************)

\* The key f without dims, as a Key and as a bare name.
key_f == KeyFast(<<"f">>, <<>>, None)

name_f == StrVal(<<"f">>)

\* Keys inserted: f with no, one and two dims, in both orders, as Key and
\* as str; f with a tag; the bare name f.
InsertKeys ==
    {key_f, name_f,
     KeyFast(<<"f">>, << <<"a">> >>, None),
     KeyFast(<<"f">>, << <<"a">>, <<"b">> >>, None),
     KeyFast(<<"f">>, << <<"b">>, <<"a">> >>, None),
     StrVal(<<"f", ":", "b", "-", "a">>),
     KeyFast(<<"f">>, << <<"a">> >>, <<"t">>)}

\* The arguments of Graph(...): nothing; a positional mapping or sequence of
\* pairs; keyword arguments.
Construction(arg, kwargs) == [arg |-> arg, kwargs |-> kwargs]

Constructions ==
    {Construction(Arg("Mapping", <<>>), <<>>),
     Construction(Arg("Mapping", <<Entry(StrVal(<<"f", ":", "b", "-", "a">>), 1)>>), <<>>),
     Construction(Arg("Sequence", <<Entry(KeyFast(<<"f">>, << <<"a">> >>, None), 1)>>),
                  <<>>),
     Construction(Arg("Mapping", <<>>), <<Entry(name_f, 1)>>),
     Construction(Arg("Mapping", <<>>),
                  <<Entry(StrVal(<<"f", ":", "b", "-", "a">>), 1)>>)}

\* The arguments of a bulk update in this specification.
BulkArgs ==
    {Arg("Sequence", <<Entry(KeyFast(<<"f">>, << <<"b">>, <<"a">> >>, None), 3),
                       Entry(KeyFast(<<"f">>, << <<"a">> >>, None), 3)>>),
     Arg("Mapping", <<Entry(StrVal(<<"f", ":", "a", "-", "b">>), 3),
                      Entry(name_f, 3)>>)}

\* The keys of a sequence of pairs.
PairKeys(pairs) == {pairs[i].key : i \in 1..Len(pairs)}

\* g = Graph(*args, **kwargs): k2 is the call and k1 the set of the keys
\* inserted since.
InitInsert ==
    /\ k2 \in Constructions
    /\ graph = __init__(k2.arg, k2.kwargs)
    /\ last = NoOp
    /\ k1 = {}
    /\ InitQueue

\* g[key] = value
InsertKey ==
    /\ \E key \in InsertKeys :
        /\ graph' = __setitem__(graph, key, 2)
        /\ last' = Op("set", key, DictHas(graph.items, key), "none")
        /\ k1' = k1 \cup {key}
    /\ UNCHANGED <<k2, cvars>>

\* g.update(arg)
BulkInsert ==
    /\ \E arg \in BulkArgs :
        /\ graph' = update(graph, arg, <<>>)
        /\ last' = Op("update", NoKey, FALSE, "none")
        /\ k1' = k1 \cup PairKeys(arg.pairs)
    /\ UNCHANGED <<k2, cvars>>

NextInsert == InsertKey \/ BulkInsert

SpecInsert == InitInsert /\ [][NextInsert]_vars

(***************************************************************************)
(* Key operations                                                          *)
(***************************************************************************)

InitKey ==
    /\ graph = EmptyGraph
    /\ last = NoOp
    /\ k1 \in KeyInputs
    /\ k2 = NoKey
    /\ InitQueue

\* k2 = Key(k1.name, p, k1.tag) for an order p of k1.dims
Reorder ==
    /\ \E p \in Orders(k1.dims) :
        k2' = KeyInit(StrVal(k1.name), p, k1.tag)
    /\ UNCHANGED <<graph, last, k1, cvars>>

\* list(k1.iter_sums())
IterSums ==
    /\ last' = [op |-> "iter_sums", key |-> k1, found |-> FALSE, exc |-> "none",
                result |-> iter_sums(k1)]
    /\ UNCHANGED <<graph, k1, k2, cvars>>

NextKey == Reorder \/ IterSums

SpecKey == InitKey /\ [][NextKey]_vars

(***************************************************************************)
(* Key from a string                                                       *)
(***************************************************************************)

\* Largest length of a string given to Key().
MaxLen == 5

\* The characters of the strings: two letters and the two separators.
Alphabet == {"f", "a", ":", "-"}

\* The string "".
InitParse ==
    /\ graph = EmptyGraph
    /\ last = NoOp
    /\ k1 = StrVal(<<>>)
    /\ k2 = NoKey
    /\ InitQueue

\* One more character for the string.
Extend ==
    /\ Len(k1.s) < MaxLen
    /\ \E ch \in Alphabet : k1' = StrVal(Append(k1.s, ch))
    /\ k2' = NoKey
    /\ UNCHANGED <<graph, last, cvars>>

\* k2 = Key(k1), or the exception that Key(k1) raises.
Parse ==
    /\ k2 = NoKey
    /\ k2' = Key(k1)
    /\ UNCHANGED <<graph, last, k1, cvars>>

NextParse == Extend \/ Parse

SpecParse == InitParse /\ [][NextParse]_vars

(***************************************************************************)
(* Computer.add_queue                                                      *)
(***************************************************************************)

\* Graph(**kwargs): the mapping holds kwargs and its keys are indexed.
Graph(kwargs) == __init__(Arg("Mapping", <<>>), kwargs)

\* Largest max_tries of an outermost call, and number of outermost calls.
MaxTries == 3

MaxCalls == 1

\* Keys of the queue items.
key_x == StrVal(<<"x">>)

key_y == StrVal(<<"y">>)

key_f_ab == KeyFast(<<"f">>, << <<"a">>, <<"b">> >>, None)

\* Three strict items forming a chain config <- x <- f:a-b <- y; the
\* references spell the keys as a string, in another order of the dims.
ItemX == AddKey(key_x, <<Compute, config>>, TRUE)

ItemF == AddKey(key_f_ab, <<Compute, key_x>>, TRUE)

ItemY == AddKey(key_y, <<Compute, StrVal(<<"f", ":", "b", "-", "a">>)>>, TRUE)

\* A strict item that refers to a key no item adds; a strict item at a key
\* of the graph; a look-up of a full key; a key that is not valid; an item
\* that is not strict.
ItemMissing == AddKey(StrVal(<<"u">>), <<Compute, StrVal(<<"w">>)>>, TRUE)

ItemExists == AddKey(config, <<Compute>>, TRUE)

ItemFullKey == AddMethod("full_key", StrVal(<<"f">>))

ItemInvalid == AddKey(StrVal(<<":">>), <<Compute>>, FALSE)

ItemPlain == AddKey(StrVal(<<"g">>), <<Compute, StrVal(<<"w">>)>>, FALSE)

\* Queues of the outermost calls: the chain in every order, items that
\* fail followed by one that does not, and queues with nested lists.
QueueInputs ==
    Orders(<<ItemX, ItemF, ItemY>>) \cup Orders(<<ItemX, ItemF>>)
    \cup {<<item, ItemPlain>> :
            item \in {ItemMissing, ItemExists, ItemFullKey, ItemInvalid}}
    \cup {<<ItemFullKey, ItemF, ItemX>>}
    \cup {<<AddList(<<item>>, 1, fail), ItemMissing, ItemPlain>> :
            item \in {ItemMissing, ItemInvalid},
            fail \in {FailNone, FailInt(DEBUG), FailStr("raise")}}
    \cup {<<AddList(<<AddList(<<ItemMissing>>, 1, FailNone)>>, 2, FailNone), ItemPlain>>,
          <<AddList(<<ItemMissing>>, 1, FailInt(DEBUG)),
            AddList(<<ItemMissing>>, 1, FailNone), ItemPlain>>,
          <<AddList(<<ItemF, ItemX>>, 2, FailNone), ItemY>>}

\* The fail arguments of the outermost calls.
FailInputs == {FailNone, FailStr("raise"), FailStr("info"), FailInt(DEBUG)}

\* Computer(): the graph holds "config"; nothing is running.
Init ==
    /\ graph = Graph(<<Entry(config, dict)>>)
    /\ last = NoOp
    /\ k1 = NoKey
    /\ k2 = NoKey
    /\ InitQueue

\* The innermost activation.
Top == stack[Len(stack)]

\* stack with its innermost activation replaced by f.
SetTop(f) == [stack EXCEPT ![Len(stack)] = f]

\* The innermost activation, with locals f, ends by raising e, with
\* _queue_fail = qf.
Raise(f, e, qf) ==
    /\ stack' = SubSeq(stack, 1, Len(stack) - 1)
    /\ _queue_fail' = qf
    /\ exit' = Exit("raise", f.entry, qf, f.tries)
    /\ IF Len(stack) = 1
       THEN /\ pending' = NoExc
            /\ res' = [res EXCEPT !.status = "raised", !.exc = e, !.tries = f.tries]
       ELSE /\ pending' = e
            /\ res' = res

\* c.add(key, ...) from outside, before the first call of add_queue, for a
\* key that the queues add too.
AddSingle ==
    /\ res.status = "idle"
    /\ graph' = add_single(graph, key_x, <<Compute, config>>, FALSE).G
    /\ UNCHANGED <<gvars, cvars>>

\* c.add_queue(queue, max_tries, fail), or c.add(queue, ...), from outside.
Call ==
    /\ stack = <<>>
    /\ ncalls < MaxCalls
    /\ \E queue \in QueueInputs, max_tries \in 0..MaxTries, fail \in FailInputs :
        /\ stack' = <<Frame(queue, max_tries, fail, _queue_fail)>>
        /\ res' = Outcome("running", AddList(queue, max_tries, fail), graph,
                          <<>>, NoExc, <<>>)
    /\ ncalls' = ncalls + 1
    /\ log' = <<>>
    /\ exit' = Exit("none", <<>>, <<>>, <<>>)
    /\ UNCHANGED <<graph, gvars, _queue_fail, pending, default_key, fvars>>

\* One pass of the loop for an item that is not a list: popleft, push fail,
\* add(...), the except or else clause, and the pop of the finally clause.
Attempt ==
    /\ stack # <<>> /\ pending = NoExc
    /\ Top.queue # <<>>
    /\ Head(Top.queue).value.kind # "list"
    /\ \E item \in {Head(Top.queue)} :
       \E r \in {add(graph, item.value)} :
       \E h \in {Handle([Top EXCEPT !.queue = Tail(@), !.tries[item.id] = @ + 1],
                        item, r.exc, r.keys, Len(stack))} :
       \E qf \in {PopFail(Append(_queue_fail, Top.fail))} :
        /\ graph' = r.G
        /\ log' = log \o h.log
        /\ IF h.raise
           THEN Raise(h.frame, r.exc, qf)
           ELSE /\ stack' = SetTop(h.frame)
                /\ _queue_fail' = qf
                /\ UNCHANGED <<pending, res, exit>>
    /\ UNCHANGED <<gvars, ncalls, default_key, fvars>>

\* The start of a pass for an item that is a list: popleft, push fail, and
\* add(...) calls add_queue.
Enter ==
    /\ stack # <<>> /\ pending = NoExc
    /\ Top.queue # <<>>
    /\ Head(Top.queue).value.kind = "list"
    /\ \E item \in {Head(Top.queue)} :
       \E qf \in {Append(_queue_fail, Top.fail)} :
        /\ stack' = SetTop([Top EXCEPT !.queue = Tail(@), !.tries[item.id] = @ + 1,
                                       !.item = item])
                    \o <<Frame(item.value.queue, item.value.max_tries,
                               item.value.fail, qf)>>
        /\ _queue_fail' = qf
    /\ UNCHANGED <<graph, gvars, pending, log, res, exit, ncalls, default_key, fvars>>

\* The loop ends and add_queue returns tuple(added); the enclosing pass, if
\* any, runs its else and finally clauses.
Return ==
    /\ stack # <<>> /\ pending = NoExc
    /\ Top.queue = <<>>
    /\ exit' = Exit("return", Top.entry, _queue_fail, Top.tries)
    /\ IF Len(stack) = 1
       THEN /\ stack' = <<>>
            /\ res' = [res EXCEPT !.status = "returned", !.added = Top.added,
                                  !.tries = Top.tries]
            /\ UNCHANGED _queue_fail
       ELSE \E outer \in {stack[Len(stack) - 1]} :
            \E h \in {Handle(outer, outer.item, NoExc, Top.added, Len(stack) - 1)} :
            /\ stack' = SubSeq(stack, 1, Len(stack) - 2)
                        \o <<[h.frame EXCEPT !.item = NoItem]>>
            /\ _queue_fail' = PopFail(_queue_fail)
            /\ res' = res
    /\ UNCHANGED <<graph, gvars, pending, log, ncalls, default_key, fvars>>

\* The nested add_queue raised: the except and finally clauses of the
\* enclosing pass.
Unwind ==
    /\ stack # <<>> /\ pending # NoExc
    /\ \E h \in {Handle(Top, Top.item, pending, <<>>, Len(stack))} :
       \E qf \in {PopFail(_queue_fail)} :
        /\ log' = log \o h.log
        /\ IF h.raise
           THEN Raise(h.frame, pending, qf)
           ELSE /\ stack' = SetTop([h.frame EXCEPT !.item = NoItem])
                /\ _queue_fail' = qf
                /\ pending' = NoExc
                /\ UNCHANGED <<res, exit>>
    /\ UNCHANGED <<graph, gvars, ncalls, default_key, fvars>>

\* The steps of a running call.
Run == Attempt \/ Enter \/ Return \/ Unwind

Next == AddSingle \/ Call \/ Attempt \/ Enter \/ Return \/ Unwind

Spec == Init /\ [][Next]_vars

\* The program is sequential: a call that can take a step takes it.
FairSpec == Spec /\ WF_vars(Run)

(***************************************************************************)
(* Computer.add_single, check_keys, apply and get                          *)
(***************************************************************************)

\* Largest number of wrappers around "config" at a call of get.
MaxWrap == 1

\* One key in two orders of its dims, as strings.
key_f_ba == StrVal(<<"f", ":", "b", "-", "a">>)

key_f_str == StrVal(<<"f", ":", "a", "-", "b">>)

\* Names of keys that no call adds.
key_w == StrVal(<<"w">>)

key_v == StrVal(<<"v">>)

\* The calls of add_single: a literal at the key f in each order of its
\* dims, a task at x that refers to f and to names that are missing, and a
\* task at y that refers to x.
AddInputs ==
    {AddKey(key_f_str, <<Literal(1)>>, strict) : strict \in BOOLEAN}
    \cup {AddKey(key_f_ba, <<Literal(2)>>, strict) : strict \in BOOLEAN}
    \cup {AddKey(key_x, <<Compute, key_f_ba>>, TRUE),
          AddKey(key_x, <<Broken, key_f_ba>>, FALSE),
          AddKey(key_x, <<Compute, key_w, key_f_ba, key_v>>, TRUE),
          AddKey(key_y, <<Compute, key_x>>, TRUE)}

\* The arguments of check_keys and of apply.
CheckInputs ==
    {<<key_f_str>>, <<key_f_ba, key_x>>, <<key_w, key_f_ba, key_v>>, <<key_x, key_w>>}

ApplyInputs == {<<key_f_ba>>, <<key_w, key_f_ba, key_v>>}

\* The generator functions given to apply: baz_qux, which yields a
\* computation at the key g; one that returns the same in a list; one that
\* yields nothing; "def useless(): return" and the same with *keys.
baz_qux == Generator("baz_qux", "keys", "yield", StrVal(<<"g">>))

listed == Generator("listed", "keys", "list", StrVal(<<"g">>))

yields_nothing == Generator("yields_nothing", "keys", "empty", StrVal(<<"g">>))

useless == Generator("useless", "none", "return", StrVal(<<"g">>))

useless_keys == Generator("useless_keys", "keys", "return", StrVal(<<"g">>))

\* The calls of apply: baz_qux with each of the arguments above, and the
\* other generator functions with keys that resolve or with none.
ApplyCall(generator, keys) == [generator |-> generator, keys |-> keys]

ApplyCalls ==
    {ApplyCall(baz_qux, keys) : keys \in ApplyInputs}
    \cup {ApplyCall(listed, <<key_f_ba>>),
          ApplyCall(yields_nothing, <<key_f_ba>>),
          ApplyCall(useless, <<>>),
          ApplyCall(useless, <<key_f_ba>>),
          ApplyCall(useless_keys, <<key_f_ba>>)}

\* The keys given to get; NoKey stands for no argument.
GetInputs == {NoKey, key_f_str, key_f_ba, key_x, key_y, key_w}

\* The record of a call of the Computer: its arguments, the exception it
\* raised if any, what it returned and, for get, the keys of the tasks
\* invoked.
Did(op, call, exc, result, invoked) ==
    [op |-> op, call |-> call, exc |-> exc, result |-> result, invoked |-> invoked]

\* The number of wrappers around a value.
RECURSIVE Wraps(_)
Wraps(value) == IF value.type = "quote" THEN 1 + Wraps(value.data) ELSE 0

\* Computer()
InitComputer ==
    /\ graph = Graph(<<Entry(config, dict)>>)
    /\ last = NoOp
    /\ k1 = NoKey
    /\ k2 = NoKey
    /\ InitQueue

\* c.add_single(key, *computation, strict=strict)
CallAddSingle ==
    /\ \E call \in AddInputs :
        \E r \in {add_single(graph, call.key, call.computation, call.strict)} :
            /\ graph' = r.G
            /\ last' = Did("add_single", call, r.exc, r.keys, <<>>)
    /\ UNCHANGED <<k1, k2, cvars>>

\* c.check_keys(*keys, action=action)
CallCheckKeys ==
    /\ \E keys \in CheckInputs, action \in {"raise", "return"} :
        \E r \in {Computer_check_keys(graph, keys, action)} :
            last' = Did("check_keys", [keys |-> keys, action |-> action],
                        r.exc, r.keys, <<>>)
    /\ UNCHANGED <<graph, k1, k2, cvars>>

\* c.apply(generator, *keys)
CallApply ==
    /\ \E call \in ApplyCalls :
        \E r \in {apply(graph, call.generator, call.keys)} :
            /\ graph' = r.G
            /\ last' = Did("apply", call, r.exc, r.keys, <<>>)
    /\ UNCHANGED <<k1, k2, cvars>>

\* c.default_key = key
SetDefault ==
    /\ default_key = NoKey
    /\ default_key' = key_y
    /\ last' = Did("default_key", [key |-> default_key'], NoExc, <<>>, <<>>)
    /\ UNCHANGED <<graph, k1, k2, qvars, fvars>>

\* c.get(key)
CallGet ==
    /\ Wraps(GetConfig(graph)) < MaxWrap
    /\ \E key \in GetInputs :
        \E r \in {get(graph, default_key, key)} :
            /\ graph' = r.G
            /\ last' = Did("get", [key |-> key, default |-> default_key],
                           r.exc, r.value, r.invoked)
    /\ UNCHANGED <<k1, k2, cvars>>

NextComputer == CallAddSingle \/ CallCheckKeys \/ CallApply \/ SetDefault \/ CallGet

SpecComputer == InitComputer /\ [][NextComputer]_vars

(***************************************************************************)
(* Computer.add with sums                                                  *)
(***************************************************************************)

\* Keys given to add: a key with two dims, one of its partial sums, and a
\* key with three dims and a tag, as strings.
key_f_a == StrVal(<<"f", ":", "a">>)

key_g_abc_t == StrVal(<<"g", ":", "a", "-", "b", "-", "c", ":", "t">>)

\* One call c.add(key, *computation, strict=strict, sums=sums).
AddCall(key, computation, strict, sums) ==
    [key |-> key, computation |-> computation, strict |-> strict, sums |-> sums]

\* The calls of add: literals at x, at the partial sum f:a and, with sums,
\* at the key of three dims; tasks at f:a-b with sums that refer to x and
\* to a name that is missing; and tasks at y that refer to the missing
\* name, directly and inside an inner tuple.
AddCalls ==
    {AddCall(key_x, <<Literal(1)>>, FALSE, FALSE),
     AddCall(key_x, <<Literal(1)>>, TRUE, TRUE),
     AddCall(key_f_a, <<Literal(1)>>, FALSE, FALSE),
     AddCall(key_f_str, <<Compute, key_x>>, FALSE, TRUE),
     AddCall(key_f_str, <<Compute, key_x>>, TRUE, TRUE),
     AddCall(key_f_str, <<Compute, key_w>>, TRUE, TRUE),
     AddCall(key_g_abc_t, <<Literal(1)>>, FALSE, TRUE),
     AddCall(key_y, <<Compute, key_w>>, TRUE, FALSE),
     AddCall(key_y, <<Compute, Task(<<Compute, key_w>>)>>, TRUE, FALSE)}

\* c.add(key, *computation, strict=strict, sums=sums): the stack
\* _queue_fail is pushed and popped once per sum and ends as it was.
CallAdd ==
    /\ \E call \in AddCalls :
        \E r \in {add_key(graph, call.key, call.computation, call.strict, call.sums,
                          _queue_fail)} :
            /\ graph' = r.G
            /\ last' = Did("add", call, r.exc, r.keys, <<>>)
    /\ UNCHANGED <<k1, k2, cvars>>

NextAdd == CallAdd

SpecAdd == InitComputer /\ [][NextAdd]_vars

(***************************************************************************)
(* Cached functions                                                        *)
(***************************************************************************)

\* The directory of Computer(cache_path=tmp_path).
tmp_path == PathVal(<<"t">>)

\* One call of a cached function.
Cached(name, args, kwargs) == [name |-> name, args |-> args, kwargs |-> kwargs]

\* The calls: one function without arguments and with two keyword
\* arguments, and a second function without arguments.
CachedCalls ==
    {Cached("myfunc2", <<>>, <<>>),
     Cached("myfunc2", <<>>, <<Kwarg(<<"a">>, Literal(1)), Kwarg(<<"b">>, Literal(2))>>),
     Cached("myfunc3", <<>>, <<>>)}

\* computer.graph["config"]
Config == DictGet(graph.items, config)

\* Computer(cache_path=tmp_path), with no file in the directories.
InitCache ==
    /\ graph = Graph(<<Entry(config, ConfigDict([cache_path |-> tmp_path]))>>)
    /\ last = NoOp
    /\ k1 = NoKey
    /\ k2 = NoKey
    /\ InitQueue

\* A call of a cached function.
CallCached ==
    /\ \E call \in CachedCalls :
        \E r \in {cached_load(Config, files, call.name, call.args, call.kwargs, data)} :
            /\ files' = r.files
            /\ last' = [op |-> "cached", call |-> call,
                        hash |-> arg_hash(call.args, call.kwargs),
                        cache_path |-> r.cache_path,
                        existed |-> r.cache_path \in DOMAIN files,
                        invoked |-> r.invoked,
                        result |-> r.result, exc |-> NoExc]
    /\ UNCHANGED <<graph, k1, k2, qvars, default_key, data>>

\* c.graph["config"]["cache_skip"] = value
SetCacheSkip ==
    /\ \E value \in BOOLEAN :
        /\ value # cache_skip(Config)
        /\ graph' = __setitem__(graph, config,
                        ConfigDict([name \in DOMAIN Config.entries \cup {"cache_skip"} |->
                            IF name = "cache_skip" THEN value ELSE Config.entries[name]]))
    /\ last' = [op |-> "configure", exc |-> NoExc]
    /\ UNCHANGED <<k1, k2, cvars>>

\* c.graph["config"].pop("cache_path")
PopCachePath ==
    /\ "cache_path" \in DOMAIN Config.entries
    /\ graph' = __setitem__(graph, config,
                    ConfigDict([name \in DOMAIN Config.entries \ {"cache_path"} |->
                        Config.entries[name]]))
    /\ last' = [op |-> "configure", exc |-> NoExc]
    /\ UNCHANGED <<k1, k2, cvars>>

\* The data that the functions read changes.
ChangeData ==
    /\ data' = 3 - data
    /\ last' = [op |-> "data", exc |-> NoExc]
    /\ UNCHANGED <<graph, k1, k2, qvars, default_key, files>>

NextCache == CallCached \/ SetCacheSkip \/ PopCachePath \/ ChangeData

SpecCache == InitCache /\ [][NextCache]_vars

(***************************************************************************)
(* arg_hash                                                                *)
(***************************************************************************)

\* Largest number of positional arguments of a call.
MaxArgs == 2

\* The values of the arguments: an int, a str and a Path of the same text.
ArgValues == {Literal(1), StrVal(<<"x">>), PathVal(<<"x">>)}

\* The positional arguments.
ArgSeqs == UNION {[1..n -> ArgValues] : n \in 0..MaxArgs}

\* The keyword arguments: none, one, and two in either order.
KwargSeqs2 ==
    {<<>>}
    \cup {<<Kwarg(n, v)>> : n \in {<<"a">>, <<"b">>}, v \in {Literal(1), Literal(2)}}
    \cup {kwargs \in {<<Kwarg(n, v), Kwarg(m, Literal(1))>> :
                        n \in {<<"a">>, <<"b">>}, m \in {<<"a">>, <<"b">>},
                        v \in {Literal(1), Literal(2)}} :
            kwargs[1].name # kwargs[2].name}

\* The arguments of one call.
InitHash ==
    /\ graph = EmptyGraph
    /\ last = NoOp
    /\ k1 \in {[args |-> args, kwargs |-> kwargs] : args \in ArgSeqs, kwargs \in KwargSeqs2}
    /\ k2 = NoKey
    /\ InitQueue

\* k2 = arg_hash(*args, **kwargs)
ArgHash ==
    /\ k2 = NoKey
    /\ k2' = [type |-> "hash", hexdigest |-> arg_hash(k1.args, k1.kwargs)]
    /\ UNCHANGED <<graph, last, k1, cvars>>

NextHash == ArgHash

SpecHash == InitHash /\ [][NextHash]_vars

(***************************************************************************)
(* Properties of Graph                                                     *)
(***************************************************************************)

\* The keys of the mapping.
StoredKeys == {graph.items[slot].key : slot \in DOMAIN graph.items}

\* v is literally a key of the mapping.
Stored(v) == IsKeyLike(v) /\ DictHas(graph.items, v)

\* The stored keys that are not bare names, as Key objects.
StoredKeyObjs == {Key(k) : k \in {s \in StoredKeys : ~IsBare(s)}}

\* C1: every key stored in the mapping round-trips through both indexes:
\* unsorted_key(k) is a stored key equal to k, and (for a key with Key
\* structure) full_key(k) is a stored key with k's name and tag.
C1_RoundTrip ==
    \A k \in StoredKeys :
        /\ LET u == unsorted_key(graph, k) IN Stored(u) /\ PyEq(u, k)
        /\ ~IsBare(k) =>
             LET f == full_key(graph, k) IN
             /\ Stored(f)
             /\ f.name = Key(k).name
             /\ f.tag = Key(k).tag

\* C2: after a key k was deleted (del, or pop of a stored key), full_key for
\* k's name and tag is a stored key of the highest dimensionality among the
\* stored keys with that name and tag, and None only if there is none.
C2_FullKeyAfterDelete ==
    (last.op \in {"del", "pop"} /\ last.found) =>
        LET k    == Key(last.key)
            same == {s \in StoredKeyObjs : s.name = k.name /\ s.tag = k.tag}
            f    == full_key(graph, last.key)
        IN  IF same = {} THEN f = NoKey
            ELSE /\ Stored(f)
                 /\ f \in same
                 /\ \A s \in same : Len(s.dims) <= Len(f.dims)

\* C3: for every key k stored in the mapping and every order p of its dims,
\* the membership test reports Key(k.name, p, k.tag) as present, given as a
\* Key and given as a string.
C3_ContainsAnyOrder ==
    \A k \in StoredKeys :
        IF IsBare(k) THEN __contains__(graph, k)
        ELSE \A p \in Orders(Key(k).dims) :
                LET q == KeyInit(StrVal(Key(k).name), p, Key(k).tag) IN
                /\ __contains__(graph, q)
                /\ __contains__(graph, StrVal(Str(q)))

\* C4: Key(k.name, p, k.tag) for an order p of k.dims is equal to k and has
\* the same hash as k.
C4_OrderInsensitive ==
    k2 # NoKey => (PyEq(k2, k1) /\ PyEq(k1, k2) /\ Hash(k2) = Hash(k1))

\* C36: a del or pop of a key that the mapping does not hold as given, which
\* raises KeyError or returns the default, leaves the mapping, the unsorted
\* index and the full index as they were.
C36_AbsentDeleteUnchanged ==
    [][(last'.op \in {"del", "pop"} /\ ~last'.found) =>
            /\ graph'.items = graph.items
            /\ graph'._unsorted = graph._unsorted
            /\ graph'._full = graph._full]_vars

(***************************************************************************)
(* Properties of Graph construction and insertion                          *)
(***************************************************************************)

\* The keys inserted so far that are Keys or strings with dims or a tag, as
\* Keys.
InsertedKeys == {Key(k) : k \in {x \in k1 : ~IsBare(x)}}

\* The queries of full_key: Keys named f with any dims and tag, and
\* strings.
FullKeyQueries ==
    KeyInputs \cup {name_f, StrVal(<<"f", ":", "b">>), StrVal(<<"f", ":", ":", "t">>)}

\* C32: in a graph that was constructed empty, after inserts and bulk
\* updates, full_key(q), for a query with the name and tag of an inserted
\* Key and any dims, returns an inserted Key with that name and tag, and no
\* inserted Key with that name and tag has more dims.
C32_FullKeyMax ==
    (k2.arg.pairs = <<>> /\ k2.kwargs = <<>>) =>
        \A q \in FullKeyQueries :
            \A r \in {full_key(graph, q)}, kq \in {Key(q)} :
                (\E k \in InsertedKeys : k.name = kq.name /\ k.tag = kq.tag) =>
                    /\ r \in InsertedKeys
                    /\ r.name = kq.name
                    /\ r.tag = kq.tag
                    /\ \A k \in InsertedKeys :
                            (k.name = kq.name /\ k.tag = kq.tag) =>
                                Len(k.dims) <= Len(r.dims)

\* f:a-b was inserted and f:a after it, also f:a:t; full_key of f:b and of
\* f:c-a is a Key f with two dims, and full_key of f::t is f:a:t.
C32_Witness ==
    /\ k2.arg.pairs = <<>> /\ k2.kwargs = <<>>
    /\ last.op = "set"
    /\ last.key = KeyFast(<<"f">>, << <<"a">> >>, None)
    /\ KeyFast(<<"f">>, << <<"a">>, <<"b">> >>, None) \in k1
    /\ KeyFast(<<"f">>, << <<"a">> >>, <<"t">>) \in k1
    /\ Len(full_key(graph, StrVal(<<"f", ":", "b">>)).dims) = 2
    /\ Len(full_key(graph, KeyFast(<<"f">>, << <<"c">>, <<"a">> >>, None)).dims) = 2
    /\ full_key(graph, StrVal(<<"f", ":", ":", "t">>)) = KeyFast(<<"f">>, << <<"a">> >>, <<"t">>)

\* The keys of the initial content of a construction, positional first.
InitialKeys(c) ==
    [i \in 1..Len(c.arg.pairs \o c.kwargs) |-> (c.arg.pairs \o c.kwargs)[i].key]

\* C37: in a graph as constructed, before any insertion, every key of the
\* initial content is in the unsorted index, and in the full index if it
\* has dims or a tag or is a Key; the indexes are those of an empty graph
\* into which the same keys were inserted in turn.
C37_InitialKeysIndexed ==
    k1 = {} =>
        /\ \A key \in Range(InitialKeys(k2)) :
                /\ IsKeyLike(unsorted_key(graph, key))
                /\ ~IsBare(key) => IsKeyLike(full_key(graph, key))
        /\ graph._unsorted = IndexAll(EmptyGraph, InitialKeys(k2))._unsorted
        /\ graph._full = IndexAll(EmptyGraph, InitialKeys(k2))._full

\* C38: the mapping holds at most one entry per name, set of dims and tag:
\* no two entries have keys with dims or a tag that are equal as Keys.
C38_OneEntryPerKey ==
    \A a, b \in DOMAIN graph.items :
        (/\ ~IsBare(graph.items[a].key)
         /\ ~IsBare(graph.items[b].key)
         /\ KeyEq(Key(graph.items[a].key), graph.items[b].key)) => a = b

\* The bare name f and the Key f without dims, each with the other.
BareForms == {<<name_f, key_f>>, <<key_f, name_f>>}

\* C39: when the mapping holds the bare name f or the Key f without dims,
\* the other form is in the graph for the membership test, a strict
\* add_single at the other form raises KeyExistsError, and check_keys
\* resolves the other form.
C39_BareNameSameEntry ==
    \A forms \in BareForms :
        DictHas(graph.items, forms[1]) =>
            /\ __contains__(graph, forms[2])
            /\ add_single(graph, forms[2], <<Literal(1)>>, TRUE).exc.type = "KeyExistsError"
            /\ IsKeyLike(_check(graph, forms[2]))

(***************************************************************************)
(* Properties of Computer.add_queue                                        *)
(***************************************************************************)

\* a and b name the same key: same name and tag, same set of dims.
SameKey(a, b) == KeyEq(Key(a), b)

\* The items of queue, taken in the order p, form a chain over the graph G:
\* the references of the first resolve in G and every other item refers to
\* the key of the one before it.
ChainIn(queue, p, G) ==
    /\ \A r \in Range(Refs(queue[p[1]].computation)) : IsKeyLike(_check(G, r))
    /\ \A i \in 2..Len(p) :
        /\ Refs(queue[p[i]].computation) # <<>>
        /\ \A r \in Range(Refs(queue[p[i]].computation)) : SameKey(queue[p[i - 1]].key, r)

\* queue holds strict items that add distinct keys which G does not hold,
\* and the items form a chain in some order.
IsChain(queue, G) ==
    /\ queue # <<>>
    /\ \A i \in 1..Len(queue) : queue[i].kind = "key"
    /\ \A i \in 1..Len(queue) :
        /\ queue[i].strict
        /\ IsKeyLike(Key(queue[i].key))
        /\ ~__contains__(G, queue[i].key)
        /\ \A j \in 1..Len(queue) : i # j => ~SameKey(queue[i].key, queue[j].key)
    /\ \E p \in Orders([i \in 1..Len(queue) |-> i]) : ChainIn(queue, p, G)

\* The outermost call was given a chain and max_tries of at least its length.
ChainCall ==
    /\ res.status # "idle"
    /\ IsChain(res.call.queue, res.G0)
    /\ res.call.max_tries >= Len(res.call.queue)

\* The outermost call returned the keys of all its items, all of them stored.
ChainDone ==
    /\ ChainCall
    /\ res.status = "returned"
    /\ Len(res.added) = Len(res.call.queue)
    /\ \A i \in 1..Len(res.call.queue) :
        /\ \E j \in 1..Len(res.added) : res.added[j] = res.call.queue[i].key
        /\ DictHas(graph.items, res.call.queue[i].key)

\* C5: a call of add_queue with a queue of N strict items that form a
\* dependency chain, in any order, and max_tries >= N eventually returns the
\* N keys with all N items inserted, and never ends by raising.
C5_ChainCompletes ==
    /\ [](ChainCall /\ res.status # "running" => ChainDone)
    /\ (ChainCall ~> ChainDone)

\* A chain of three items given in the worst order: the first item of the
\* queue is inserted on its third attempt.
C5_Witness ==
    /\ ChainDone
    /\ Len(res.call.queue) = 3
    /\ res.call.max_tries = 3
    /\ res.tries[1] = 3

\* max(1, max_tries)
TryBound(max_tries) == IF max_tries > 1 THEN max_tries ELSE 1

RECURSIVE Sum(_)
Sum(seq) == IF seq = <<>> THEN 0 ELSE Head(seq) + Sum(Tail(seq))

\* The outermost call has ended.
Finished == res.status \in {"returned", "raised"}

\* C6 as stated: when a call of add_queue has ended, by returning or by
\* raising, every item of its queue was attempted at least once and at most
\* max(1, max_tries) times.
C6_EveryItemAttempted ==
    Finished =>
        \A i \in 1..Len(res.tries) :
            /\ res.tries[i] >= 1
            /\ res.tries[i] <= TryBound(res.call.max_tries)

\* C6, amended: every call of add_queue ends; every item is attempted at
\* most max(1, max_tries) times, hence at most N * max(1, max_tries)
\* attempts in all; and when the call returns, as opposed to raising, every
\* item was attempted at least once.
C6_Terminates ==
    /\ [](\A d \in 1..Len(stack) :
            /\ \A i \in 1..Len(stack[d].tries) :
                stack[d].tries[i] <= TryBound(stack[d].max_tries)
            /\ Sum(stack[d].tries)
                <= Len(stack[d].tries) * TryBound(stack[d].max_tries))
    /\ [](Finished =>
            \A i \in 1..Len(res.tries) : res.tries[i] <= TryBound(res.call.max_tries))
    /\ [](exit.how = "return" => \A i \in 1..Len(exit.tries) : exit.tries[i] >= 1)
    /\ (res.status = "running" ~> Finished)

\* A call that raised at the only allowed attempt of its first item and
\* never attempted the second.
C6_Witness ==
    /\ res.status = "raised"
    /\ res.call.max_tries = 1
    /\ res.tries = <<1, 0>>

\* The item of the next step of the innermost activation: the head of its
\* queue, or the item whose nested call raised.
NextItem ==
    IF stack = <<>> THEN {}
    ELSE IF pending # NoExc THEN {Top.item}
    ELSE IF Top.queue = <<>> THEN {}
    ELSE {Head(Top.queue)}

\* The exception the next step handles for item, if any.
NextFailure(item) ==
    IF pending # NoExc THEN {pending}
    ELSE IF item.value.kind = "list" THEN {}
    ELSE {add(graph, item.value).exc}

\* item fails with e, which "except KeyError" catches, at its last allowed
\* attempt.
LastFailure(item, e) ==
    /\ e.type \in {"KeyError", "MissingKeyError", "KeyExistsError"}
    /\ item.count >= Top.max_tries

\* The outcome of a last failure claimed for the level fail, where rest is
\* the queue without item.
LastFailureOutcome(item, e, rest) ==
    IF Top.fail >= ERROR
    THEN /\ stack' = SubSeq(stack, 1, Len(stack) - 1)
         /\ IF Len(stack) = 1
            THEN res'.status = "raised" /\ res'.exc = e
            ELSE pending' = e
    ELSE /\ Len(log') = Len(log) + 1
         /\ log'[Len(log')].level = Top.fail
         /\ log'[Len(log')].id = item.id
         /\ Len(stack') = Len(stack)
         /\ stack'[Len(stack)].queue = rest
         /\ stack'[Len(stack)].added = Top.added
         /\ pending' = NoExc
         /\ res'.status = "running"

\* C7: when an item fails at its last allowed attempt, then if the fail
\* level is logging.ERROR or above ("raise" maps to it) the exception is
\* re-raised and the activation ends without attempting the items left in
\* its queue; if it is below, a message is logged at that level, the item is
\* dropped from the queue and the loop goes on with the next item.
C7_LastFailure ==
    [][\A item \in NextItem : \A e \in NextFailure(item) :
        LastFailure(item, e) =>
            LastFailureOutcome(item, e,
                IF pending = NoExc THEN Tail(Top.queue) ELSE Top.queue)]_vars

\* A call that returned after a nested call raised at level ERROR and the
\* enclosing call logged and dropped items below ERROR, then added a key.
C7_Witness ==
    /\ res.status = "returned"
    /\ res.added # <<>>
    /\ \E i, j \in 1..Len(log) :
        /\ i < j
        /\ log[i].level >= ERROR /\ log[i].depth = 2
        /\ log[j].level < ERROR /\ log[j].depth = 1

\* The items in the queues of the activations, and those whose nested call
\* is in progress.
QueuedItems ==
    UNION {Range(stack[d].queue) \cup {stack[d].item} : d \in 1..Len(stack)}

\* C8 as stated: an item is re-queued for another attempt only when its
\* failure was MissingKeyError.
C8_RetryOnlyMissing ==
    \A item \in QueuedItems : item.count > 1 => item.exc = "MissingKeyError"

\* C8, amended: an item is re-queued for another attempt only when its
\* failure was a KeyError: MissingKeyError, KeyExistsError or the KeyError of
\* Computer.full_key.  An item that fails with another exception, such as the
\* ValueError of a key that is not valid, is not retried.
C8_RetryOnlyKeyError ==
    \A item \in QueuedItems :
        item.count > 1 =>
            item.exc \in {"MissingKeyError", "KeyExistsError", "KeyError"}

\* Items re-queued after KeyExistsError and after the KeyError of full_key.
C8_Witness ==
    /\ \E item \in QueuedItems : item.count > 1 /\ item.exc = "KeyExistsError"
    /\ \E item \in QueuedItems : item.count > 1 /\ item.exc = "KeyError"

\* C9: whenever a call of add_queue returns or raises, at any depth of
\* nesting, _queue_fail is as it was when the call was made; the stack is
\* never empty and its bottom element is the default, logging.ERROR.
C9_StackBalanced ==
    /\ Len(_queue_fail) >= 1
    /\ _queue_fail[1] = ERROR
    /\ exit.how # "none" => exit.qf = exit.entry
    /\ stack = <<>> => _queue_fail = <<ERROR>>

\* A nested call raised an exception that "except KeyError" does not catch.
C9_Witness ==
    /\ exit.how = "raise"
    /\ Len(exit.entry) = 2
    /\ pending.type = "ValueError"

\* C10: a call of add_queue with fail=None uses the level of the innermost
\* enclosing call that is processing an item, and the default when there is
\* none; the level at which the outermost call logs is the one it was given,
\* whatever levels the nested calls were given.
C10_FailInherited ==
    /\ \A d \in 1..Len(stack) :
        stack[d].failArg = FailNone =>
            stack[d].fail = (IF d = 1 THEN ERROR ELSE stack[d - 1].fail)
    /\ \A i \in 1..Len(log) :
        log[i].depth = 1 =>
            log[i].level = (IF res.call.fail = FailNone THEN ERROR
                            ELSE IF res.call.fail.type = "int" THEN res.call.fail.v
                            ELSE LoggingLevel(res.call.fail.s))

\* A nested call with fail=None runs at the level INFO of the outermost
\* call after an earlier nested call logged at its own level DEBUG.
C10_Witness ==
    /\ Len(stack) = 2
    /\ stack[2].failArg = FailNone
    /\ stack[2].fail = INFO
    /\ \E i \in 1..Len(log) : log[i].depth = 2 /\ log[i].level = DEBUG

\* The positions and counts of the items of a queue, in order.
Counts(queue) == [i \in 1..Len(queue) |-> <<queue[i].id, queue[i].count>>]

\* The queue of the activation f is in passes: the counts do not decrease
\* along the queue and the last is at most one more than the first; items
\* of one count are in the order of submission; an item of count c was
\* attempted c - 1 times.
InPasses(f) ==
    /\ \A i \in 1..Len(f.queue) : \A j \in i + 1..Len(f.queue) :
            /\ f.queue[i].count <= f.queue[j].count
            /\ f.queue[j].count <= f.queue[i].count + 1
            /\ f.queue[i].count = f.queue[j].count => f.queue[i].id < f.queue[j].id
    /\ \A i \in 1..Len(f.queue) :
            /\ f.queue[i].count >= 1
            /\ f.tries[f.queue[i].id] = f.queue[i].count - 1

\* From the activation f to g, its queue is as it was, or lost its head to
\* an attempt, or lost its head and holds it at the tail with the count
\* incremented by one, or holds at the tail, in the same way, the item whose
\* nested call raised.
QueueStep(f, g) ==
    \/ Counts(g.queue) = Counts(f.queue)
    \/ /\ f.queue # <<>>
        /\ g.tries[Head(f.queue).id] = f.tries[Head(f.queue).id] + 1
        /\ \/ Counts(g.queue) = Counts(Tail(f.queue))
           \/ Counts(g.queue) = Counts(Tail(f.queue))
                    \o << <<Head(f.queue).id, Head(f.queue).count + 1>> >>
    \/ /\ f.item # NoItem
        /\ Counts(g.queue) = Counts(f.queue) \o << <<f.item.id, f.item.count + 1>> >>

\* C33: an activation of add_queue starts with every item of its queue, in
\* the order of submission, with count 1; every step leaves the queue of
\* each activation as it was, or takes the head for an attempt and either
\* drops it or appends it to the tail with its count incremented by one;
\* so the queue is always in passes: no item is attempted for the
\* (k+1)-th time while an item attempted fewer than k times remains.
C33_FifoPasses ==
    [][/\ \A d \in 1..Len(stack') :
            /\ InPasses(stack'[d])
            /\ d <= Len(stack) => QueueStep(stack[d], stack'[d])
            /\ d > Len(stack) =>
                    /\ Counts(stack'[d].queue) =
                            [i \in 1..Len(stack'[d].queue) |-> <<i, 1>>]
                    /\ \A i \in 1..Len(stack'[d].queue) : stack'[d].tries[i] = 0]_vars

\* In a call with max_tries = 3, the queue holds an item that waits for its
\* second attempt before one that waits for its third.
C33_Witness ==
    /\ Len(stack) = 1
    /\ stack[1].max_tries = 3
    /\ Len(stack[1].queue) = 2
    /\ stack[1].queue[1].count = 2
    /\ stack[1].queue[2].count = 3
    /\ stack[1].queue[1].id > stack[1].queue[2].id

\* queue is a chain over G given in reverse: every item refers to the key
\* of the item after it and the references of the last resolve in G.
ReverseChain(queue, G) ==
    /\ IsChain(queue, G)
    /\ ChainIn(queue, [i \in 1..Len(queue) |-> Len(queue) + 1 - i], G)

\* The outermost call raises in this step.
Aborts == res.status = "running" /\ res'.status = "raised"

\* C34: no step of add_queue removes an entry of the graph or changes one;
\* when the outermost call ends by raising, the step inserts nothing, every
\* key that the call added is stored and get computes it, and the key of an
\* item that waits in the queue is not stored unless the graph held it
\* before the call or another item added it.  For a chain given in reverse
\* with 1 <= max_tries < N and a fail level that raises, the exception is
\* the MissingKeyError of the first item, raised at its max_tries-th
\* attempt, and it names the key that the item refers to; the max_tries - 1
\* items at the end of the queue were added and all others wait.
C34_NoRollback ==
    [][/\ \A h \in DOMAIN graph.items :
            h \in DOMAIN graph'.items /\ graph'.items[h] = graph.items[h]
       /\ Aborts =>
            /\ graph' = graph
            /\ \A key \in Range(stack[1].added) :
                    /\ DictHas(graph'.items, key)
                    /\ get(graph', NoKey, key).exc = NoExc
            /\ \A item \in Range(stack[1].queue) :
                    (item.value.kind = "key" /\ DictHas(graph'.items, item.value.key)) =>
                        \/ DictHas(res.G0.items, item.value.key)
                        \/ item.value.key \in Range(stack[1].added)
       /\ (/\ Aborts
           /\ ReverseChain(res.call.queue, res.G0)
           /\ res.call.max_tries >= 1) =>
            /\ res.call.max_tries < Len(res.call.queue)
            /\ res'.exc = Exc("MissingKeyError", Refs(res.call.queue[1].computation))
            /\ res'.tries[1] = res.call.max_tries
            /\ Len(stack[1].added) = res.call.max_tries - 1
            /\ Len(stack[1].queue) = Len(res.call.queue) - Len(stack[1].added)]_vars

\* add_queue([y, f:a-b, x], max_tries=2) raised MissingKeyError("f:b-a") at
\* the second attempt of y: x, added in the first pass, is stored, and
\* f:a-b and y are not.
C34_Witness ==
    /\ res.status = "raised"
    /\ res.call.queue = <<ItemY, ItemF, ItemX>>
    /\ res.call.max_tries = 2
    /\ res.exc = Exc("MissingKeyError", <<StrVal(<<"f", ":", "b", "-", "a">>)>>)
    /\ res.tries = <<2, 1, 1>>
    /\ ~DictHas(res.G0.items, key_x)
    /\ DictHas(graph.items, key_x)
    /\ ~DictHas(graph.items, key_f_ab)
    /\ ~DictHas(graph.items, key_y)

(***************************************************************************)
(* Properties of Computer.add_single, check_keys, apply and get            *)
(***************************************************************************)

\* The graph G holds key, in some order of its dims.
Present(G, key) == \E h \in DOMAIN G.items : SameKey(key, G.items[h].key)

\* The keys of the calls of add_single.
AddKeys == {call.key : call \in AddInputs}

\* C11: a strict add_single at a key that the graph holds, in the same or
\* in another order of the dims, raises KeyExistsError and leaves the graph
\* as it is; a strict add_single that succeeds adds a key that the graph
\* did not hold, and no call removes a key: under strict insertion a key
\* is inserted successfully at most once.
C11_StrictKeyExists ==
    [][/\ (last'.op = "add_single" /\ last'.call.strict) =>
            /\ Present(graph, last'.call.key) =>
                    (last'.exc.type = "KeyExistsError" /\ graph' = graph)
            /\ last'.exc = NoExc =>
                    (~Present(graph, last'.call.key) /\ Present(graph', last'.call.key))
       /\ \A key \in AddKeys : Present(graph, key) => Present(graph', key)]_vars

\* A strict add_single of f:b-a was refused while the graph holds f:a-b only.
C11_Witness ==
    /\ last.op = "add_single"
    /\ last.call.strict
    /\ last.call.key = key_f_ba
    /\ last.exc.type = "KeyExistsError"
    /\ DictHas(graph.items, key_f_ab)
    /\ ~DictHas(graph.items, Key(key_f_ba))

\* The references of computation are keys of G as they are stored, or are
\* not keys of G at all.
ExactRefs(G, computation) ==
    \A w \in Range(Refs(computation)) : Present(G, w) => DictHas(G.items, w)

\* C12: add_single with strict=False at a key that the graph holds, in the
\* same or in another order of the dims, raises nothing; a get of that key
\* that follows it, in any order of the dims, computes the new computation:
\* it returns a new literal, and it invokes a new task, whose references
\* are spelled as the graph stores them, as the last task.
C12_ReplaceThenGet ==
    [][/\ (/\ last'.op = "add_single"
           /\ ~last'.call.strict
           /\ Present(graph, last'.call.key)) => last'.exc = NoExc
       /\ (/\ last.op = "add_single"
           /\ ~last.call.strict
           /\ last'.op = "get"
           /\ last'.call.key # NoKey
           /\ SameKey(last'.call.key, last.call.key)) =>
                IF Unpack(last.call.computation).type = "tuple"
                THEN ExactRefs(graph, last.call.computation) =>
                        /\ last'.invoked # <<>>
                        /\ SameKey(last.call.key, last'.invoked[Len(last'.invoked)])
                        /\ (Head(last.call.computation) = Broken) =
                               (last'.exc.type = "ComputationError")
                ELSE /\ last'.exc = NoExc
                     /\ last'.result = Unpack(last.call.computation)]_vars

\* The literal 2 was stored at f:b-a over the literal 1 at f:a-b, and a get
\* of f:a-b returned 2.
C12_Witness ==
    /\ last.op = "get"
    /\ last.call.key = key_f_str
    /\ last.result = Literal(2)
    /\ DictHas(graph.items, key_f_ab)
    /\ DictGet(graph.items, key_f_ab) = Literal(1)

\* The keys of a sequence that the graph G does not resolve, in order.
Unresolved(G, keys) == SelectSeq(keys, LAMBDA key : _check(G, key) = NoKey)

\* C13: check_keys(*keys) with at least one key that does not resolve
\* raises one MissingKeyError that names the keys that do not resolve, in
\* the order they were given, and no key that resolves; a strict add_single
\* at a new key, for the keys of its computation, and apply, for its keys,
\* raise the same error.  (A call that raises leaves the graph as it was,
\* and no call removes a key, so the graph of the state is the graph that
\* the call checked.)
C13_MissingKeysNamed ==
    /\ (/\ last.op = "check_keys"
        /\ last.call.action = "raise"
        /\ Unresolved(graph, last.call.keys) # <<>>) =>
            last.exc = Exc("MissingKeyError", Unresolved(graph, last.call.keys))
    /\ (/\ last.op = "apply"
        /\ Unresolved(graph, last.call.keys) # <<>>) =>
            last.exc = Exc("MissingKeyError", Unresolved(graph, last.call.keys))
    /\ (/\ last.op = "add_single"
        /\ last.call.strict
        /\ ~Present(graph, last.call.key)
        /\ Unresolved(graph, Refs(last.call.computation)) # <<>>) =>
            last.exc = Exc("MissingKeyError",
                           Unresolved(graph, Refs(last.call.computation)))
    /\ (last.op \in {"check_keys", "apply", "add_single"}
        /\ last.exc.type = "MissingKeyError") =>
            \A key \in Range(last.exc.keys) : ~Present(graph, key)

\* check_keys("w", "f:b-a", "v") raised MissingKeyError("w", "v") while the
\* graph holds f:a-b.
C13_Witness ==
    /\ last.op = "check_keys"
    /\ last.call.keys = <<key_w, key_f_ba, key_v>>
    /\ last.exc = Exc("MissingKeyError", <<key_w, key_v>>)
    /\ Present(graph, key_f_ba)

\* C14: check_keys(*keys, action="return") raises nothing and returns a
\* list with one entry per key: None where the key does not resolve, and
\* the key as the graph resolves it elsewhere.
C14_ReturnList ==
    (last.op = "check_keys" /\ last.call.action = "return") =>
        /\ last.exc = NoExc
        /\ last.result # NoKey
        /\ Len(last.result) = Len(last.call.keys)
        /\ \A i \in 1..Len(last.call.keys) :
                last.result[i] = _check(graph, last.call.keys[i])

\* C15: after a call of get, whether it returned or raised, the graph holds
\* "config" unwrapped.
C15_ConfigRestored ==
    last.op = "get" => Wraps(GetConfig(graph)) = 0

\* The task stored at key in G raises when it is invoked.
Raises(G, key) ==
    /\ DictHas(G.items, key)
    /\ DictGet(G.items, key).type = "tuple"
    /\ Head(DictGet(G.items, key).elems) = Broken

\* C16: when a task raises while get executes the pruned graph, get raises
\* one ComputationError that carries the exception of the task; the task
\* that raised is the last one invoked and no task is invoked twice: the
\* graph is executed once and nothing is tried again.  A get that returns
\* has invoked no task that raises.
C16_ComputationError ==
    last.op = "get" =>
        /\ \A i, j \in 1..Len(last.invoked) : i # j => last.invoked[i] # last.invoked[j]
        /\ \A i \in 1..Len(last.invoked) :
                Raises(graph, last.invoked[i]) =>
                    /\ i = Len(last.invoked)
                    /\ last.exc = ComputationError(Exc("Exception", <<last.invoked[i]>>))
        /\ last.exc.type = "ComputationError" =>
                /\ last.invoked # <<>>
                /\ Raises(graph, last.invoked[Len(last.invoked)])

\* get("y") raised ComputationError when the task at x, which y refers to,
\* raised; the task at y was not invoked.
C16_Witness ==
    /\ last.op = "get"
    /\ last.call.key = key_y
    /\ last.exc = ComputationError(Exc("Exception", <<key_x>>))
    /\ last.invoked = <<key_x>>

\* The computation stored at key refers to the stored key other: one of its
\* arguments names other, in some order of the dims.
RefersTo(G, key, other) ==
    /\ DictHas(G.items, key)
    /\ \E w \in Range(Arguments(DictGet(G.items, key))) :
            IsKeyLike(w) /\ SameKey(w, other)

\* The keys reached from the keys S through the references of the tasks.
RECURSIVE Reachable(_, _)
Reachable(G, S) ==
    Let(S \cup {G.items[h].key : h \in {x \in DOMAIN G.items :
                    \E key \in S : RefersTo(G, key, G.items[x].key)}},
        LAMBDA T : IF T = S THEN S ELSE Reachable(G, T))

\* The key that get computes: its argument as check_keys resolves it, or
\* default_key.
Resolved(G, call) ==
    IF call.key = NoKey THEN call.default ELSE _check(G, call.key)

\* C17: get invokes only tasks at keys that are reached from the resolved
\* key through the references of the tasks.
C17_OnlyReachable ==
    last.op = "get" =>
        \A i \in 1..Len(last.invoked) :
            last.invoked[i] \in Reachable(graph, {Resolved(graph, last.call)})

\* get("x") invoked the task at x alone, while the graph holds the task at
\* y, which x does not refer to.
C17_Witness ==
    /\ last.op = "get"
    /\ last.call.key = key_x
    /\ last.invoked = <<key_x>>
    /\ last.exc = NoExc
    /\ DictHas(graph.items, key_y)
    /\ DictGet(graph.items, key_y).type = "tuple"

\* C31: apply with a generator function that returns None, or that yields
\* nothing, leaves the mapping and both indexes of the graph as they were,
\* whether check_keys or the call of the generator raises or not.
C31_ApplyNothing ==
    [][(/\ last'.op = "apply"
        /\ last'.call.generator.returns \in {"return", "empty"}) =>
            /\ graph'.items = graph.items
            /\ graph'._unsorted = graph._unsorted
            /\ graph'._full = graph._full]_vars

\* apply(useless_keys, "f:b-a") returned without an exception: the keys
\* resolved and the generator function was called with the stored key.
C31_Witness ==
    /\ last.op = "apply"
    /\ last.call.generator.returns = "return"
    /\ last.call.keys = <<key_f_ba>>
    /\ last.exc = NoExc
    /\ Present(graph, key_f_ba)
    /\ ~Present(graph, last.call.generator.target)

\* C35: a strict add_single that raises KeyExistsError or MissingKeyError
\* leaves the mapping, the unsorted index and the full index as they were.
C35_StrictRaiseUnchanged ==
    [][(/\ last'.op = "add_single"
        /\ last'.call.strict
        /\ last'.exc.type \in {"KeyExistsError", "MissingKeyError"}) =>
            /\ graph'.items = graph.items
            /\ graph'._unsorted = graph._unsorted
            /\ graph'._full = graph._full]_vars

\* A strict add_single at f:b-a raised KeyExistsError while the graph holds
\* the key in the other order of its dims, and the index still names the
\* stored order.
C35_Witness ==
    /\ last.op = "add_single"
    /\ last.call.strict
    /\ last.call.key = key_f_ba
    /\ last.exc.type = "KeyExistsError"
    /\ DictHas(graph.items, key_f_str)
    /\ ~DictHas(graph.items, key_f_ba)
    /\ unsorted_key(graph, key_f_ba) = Key(key_f_str)

(***************************************************************************)
(* Properties of Graph.infer and Key.iter_sums                             *)
(***************************************************************************)

\* C18: infer, with no dims, of a key that is the full key of some key
\* returns that key.
C18_InferFullKey ==
    (/\ last.op = "infer"
     /\ last.dims = {}
     /\ \E k \in InferKeys : full_key(graph, k) = last.key) =>
        last.result = last.key

\* infer was given the full key f:b-a of "f", which is stored along with a
\* key of the same name and fewer dims.
C18_Witness ==
    /\ last.op = "infer"
    /\ last.dims = {}
    /\ last.key = KeyFast(<<"f">>, << <<"b">>, <<"a">> >>, None)
    /\ full_key(graph, StrVal(<<"f">>)) = last.key
    /\ DictHas(graph.items, KeyFast(<<"f">>, << <<"a">> >>, None))
    /\ last.result = last.key

\* C19: infer, with no dims, of a key with at least one dim whose set of
\* dims is that of a stored key returns the stored key, whether the key is
\* given as a Key or as a string; only a bare name or a key without dims is
\* replaced by the full key.
C19_InferExplicitDims ==
    (/\ last.op = "infer"
     /\ last.dims = {}
     /\ Key(last.key).dims # <<>>
     /\ unsorted_key(graph, last.key) # NoKey) =>
        last.result = unsorted_key(graph, last.key)

\* C20: iter_sums of a Key with n distinct dims yields 2^n - 1 entries; in
\* each, the dims of the partial key and the dimensions summed over are
\* disjoint and together are the dims of the Key; the partial keys keep the
\* name and the tag, differ from one another, and none has all the dims.
C20_IterSums ==
    last.op = "iter_sums" =>
        /\ Len(last.result) = 2 ^ Cardinality(Range(last.key.dims)) - 1
        /\ \A i \in 1..Len(last.result) :
            /\ Range(last.result[i].key.dims) \cap Range(last.result[i].dimensions) = {}
            /\ Range(last.result[i].key.dims) \cup Range(last.result[i].dimensions)
                    = Range(last.key.dims)
            /\ last.result[i].key.name = last.key.name
            /\ last.result[i].key.tag = last.key.tag
            /\ Range(last.result[i].key.dims) # Range(last.key.dims)
            /\ \A j \in 1..Len(last.result) :
                    i # j => ~KeyEq(last.result[i].key, last.result[j].key)

\* iter_sums of a Key with three dims and a tag yielded seven entries.
C20_Witness ==
    /\ last.op = "iter_sums"
    /\ Len(last.key.dims) = 3
    /\ last.key.tag # None
    /\ Len(last.result) = 7

(***************************************************************************)
(* Properties of Graph.update                                              *)
(***************************************************************************)

\* g[key] = value for each pair, in order.
RECURSIVE SetAll(_, _)
SetAll(G, pairs) ==
    IF pairs = <<>> THEN G
    ELSE SetAll(__setitem__(G, Head(pairs).key, Head(pairs).value), Tail(pairs))

\* C28: update(arg), for arg a mapping, a sequence or a generator of
\* pairs, leaves the mapping and the two indices as g[key] = value for each
\* pair in order leaves them; the mapping holds every key of arg and both
\* indices resolve it.
C28_UpdateAsSets ==
    [][last'.op = "update" =>
        /\ graph' = SetAll(graph, last'.arg.pairs)
        /\ \A i \in 1..Len(last'.arg.pairs) :
            /\ DictHas(graph'.items, last'.arg.pairs[i].key)
            /\ IsKeyLike(unsorted_key(graph', last'.arg.pairs[i].key))
            /\ IsKeyLike(full_key(graph', last'.arg.pairs[i].key))]_vars

\* update was given a generator of two pairs and the mapping holds both
\* keys.
C28_Witness ==
    /\ last.op = "update"
    /\ last.arg.kind = "Generator"
    /\ Len(last.arg.pairs) = 2
    /\ last.arg.pairs[1].key # last.arg.pairs[2].key
    /\ \A i \in 1..2 : DictHas(graph.items, last.arg.pairs[i].key)
    /\ DictGet(graph.items, last.arg.pairs[2].key) = 2

(***************************************************************************)
(* Properties of Key from a string                                         *)
(***************************************************************************)

\* C22: when Key(s) is a Key, the Key of its string form str(Key(s)) has
\* the same name, the same dims in the same order and the same tag.
C22_ParseRoundTrip ==
    k2.type = "Key" => Key(StrVal(Str(k2))) = k2

\* Key("f:a:") has the string form "f:a", which differs from the string
\* given, and Key("f:a") is the same Key.
C22_Witness ==
    /\ k1 = StrVal(<<"f", ":", "a", ":">>)
    /\ k2 = KeyFast(<<"f">>, << <<"a">> >>, None)
    /\ Str(k2) = <<"f", ":", "a">>
    /\ Key(StrVal(Str(k2))) = k2

\* The grammar name[:dims[:tag]]: at most three parts separated by ":",
\* a name that is not empty, and dims that are empty or tokens that are not
\* empty joined by "-".
KeyGrammar(s) ==
    LET parts == Split(s, ":") IN
    /\ Len(parts) <= 3
    /\ parts[1] # <<>>
    /\ Len(parts) >= 2 =>
            \/ parts[2] = <<>>
            \/ \A token \in Range(Split(parts[2], "-")) : token # <<>>

\* C23: Key(s) is a Key exactly when s is a string of the grammar, and
\* raises ValueError otherwise.
C23_ParseGrammar ==
    k2 # NoKey =>
        /\ (k2.type = "Key") = KeyGrammar(k1.s)
        /\ k2.type # "Key" => k2 = Raised("ValueError")

(***************************************************************************)
(* Properties of caching                                                   *)
(***************************************************************************)

\* The configuration has the entry cache_skip and it is true.
SkipSet == config_get(Config, "cache_skip", FALSE) = TRUE

\* The files for the function and the arguments of the call in the
\* directory parent.
Artifacts(fs, parent, name, hash) ==
    {f \in DOMAIN fs : f.parent = parent /\ f.name = name /\ f.hash = hash}

\* C24: no step removes or changes a file, except a call that writes its
\* own file; with cache_skip not set, a call whose file exists, which is
\* the case exactly when the function was computed before for the same
\* arguments and the same directory, returns the stored value without
\* invoking the function and writes nothing, also when the function would
\* now return another value; a call whose file does not exist invokes the
\* function and adds that one file; afterwards there is one file for the
\* function and the arguments.
C24_CachedOnce ==
    [][/\ \A f \in DOMAIN files :
            /\ f \in DOMAIN files'
            /\ (last'.op # "cached" \/ f # last'.cache_path) => files'[f] = files[f]
       /\ (last'.op = "cached" /\ ~SkipSet) =>
            /\ last'.cache_path \in DOMAIN files =>
                    /\ ~last'.invoked
                    /\ last'.result = pickle_load(files[last'.cache_path])
                    /\ files' = files
            /\ last'.cache_path \notin DOMAIN files =>
                    /\ last'.invoked
                    /\ DOMAIN files' = DOMAIN files \cup {last'.cache_path}
            /\ Cardinality(Artifacts(files', last'.cache_path.parent, last'.call.name,
                                     last'.hash)) = 1
            /\ pickle_load(files'[last'.cache_path]) = last'.result]_vars

\* A call of myfunc2 returned the value stored for the earlier data without
\* invoking the function, which would now return another value; the
\* directory holds the file of that call and one of myfunc3.
C24_Witness ==
    /\ last.op = "cached"
    /\ ~SkipSet
    /\ last.call.name = "myfunc2"
    /\ last.existed
    /\ ~last.invoked
    /\ last.result.data # data
    /\ \E f \in DOMAIN files :
            f.name = "myfunc3" /\ f.parent = last.cache_path.parent

\* C25: with cache_skip set, a call invokes the function, returns its value
\* and stores it, whether or not its file exists.
C25_SkipRecomputes ==
    [][(last'.op = "cached" /\ SkipSet) =>
        /\ last'.invoked
        /\ last'.result = load_func(last'.call.name, last'.call.args,
                                    last'.call.kwargs, data)
        /\ files'[last'.cache_path] = pickle_dump(last'.result)]_vars

\* With cache_skip set, a call whose file existed invoked the function and
\* returned a value that differs from the one that was stored.
C25_Witness ==
    /\ last.op = "cached"
    /\ SkipSet
    /\ last.existed
    /\ last.invoked
    /\ last.result.data = data

\* The orders of the items of kwargs.
KwargOrders(kwargs) ==
    {p \in [1..Len(kwargs) -> Range(kwargs)] : Range(p) = Range(kwargs)}

\* C26: the hash of the arguments is the hash of the same positional
\* arguments with the same keyword arguments in any other order.
C26_KwargOrder ==
    k2 # NoKey =>
        \A kwargs \in KwargOrders(k1.kwargs) :
            arg_hash(k1.args, kwargs) = k2.hexdigest

\* C27: without positional and keyword arguments, the text that is hashed
\* is not the empty string: the hash is not sha1("").
C27_ZeroArgSentinel ==
    (k2 # NoKey /\ k1.args = <<>> /\ k1.kwargs = <<>>) =>
        k2.hexdigest # sha1(<<>>)

(***************************************************************************)
(* Properties of Computer.add with sums                                    *)
(***************************************************************************)

\* C21: add(key, *computation, sums=True) raises exactly when add_single
\* of key raises; when it returns, for a key with n dims it returns 2^n
\* keys: the key itself first, then the partial-sum keys of iter_sums in
\* order; the graph holds the computation at the key and, at each
\* partial-sum key, the task that sums the key over the other dims, and
\* every partial-sum key is a member of the graph.
C21_AddSums ==
    [][(last'.op = "add" /\ last'.call.sums) =>
        /\ last'.exc = add_single(graph, last'.call.key, last'.call.computation,
                                  last'.call.strict).exc
        /\ last'.exc = NoExc =>
            LET k    == Key(last'.call.key)
                sums == iter_sums(k)
            IN  /\ Len(last'.result) = 2 ^ Len(k.dims)
                /\ last'.result[1] = _key_arg(last'.call.key)
                /\ DictHas(graph'.items, last'.result[1])
                /\ DictGet(graph'.items, last'.result[1]).type
                        = Unpack(last'.call.computation).type
                /\ \A i \in 1..Len(sums) :
                    /\ last'.result[i + 1] = sums[i].key
                    /\ __contains__(graph', sums[i].key)
                    /\ DictGet(graph'.items, sums[i].key)
                            = Task(<<sum_partial(sums[i].dimensions), k>>)]_vars

\* add("g:a-b-c:t", ..., sums=True) returned eight keys and the graph holds
\* the partial sum g:b:t.
C21_Witness ==
    /\ last.op = "add"
    /\ last.call.sums
    /\ last.call.key = key_g_abc_t
    /\ last.exc = NoExc
    /\ Len(last.result) = 8
    /\ DictHas(graph.items, KeyFast(<<"g">>, << <<"b">> >>, <<"t">>))

\* C29: add(key, *computation, strict=True, sums=True), for a key and a
\* computation that add_single accepts, raises KeyExistsError when the
\* graph holds the key of one of the partial sums of key.
C29_StrictSumsExist ==
    [][(/\ last'.op = "add"
        /\ last'.call.strict
        /\ last'.call.sums
        /\ add_single(graph, last'.call.key, last'.call.computation, TRUE).exc = NoExc
        /\ \E s \in Range(iter_sums(Key(last'.call.key))) : Present(graph, s.key)) =>
            last'.exc.type = "KeyExistsError"]_vars

\* The key-like elements of a computation at any depth, in order.
RECURSIVE NestedRefs(_)
NestedRefs(computation) ==
    IF computation = <<>> THEN <<>>
    ELSE (IF IsKeyLike(Head(computation)) THEN <<Head(computation)>>
          ELSE IF Head(computation).type = "tuple"
          THEN NestedRefs(Head(computation).elems)
          ELSE <<>>) \o NestedRefs(Tail(computation))

\* C30: a strict add at a new key of a computation with a key-like element,
\* at any depth, that the graph does not resolve raises MissingKeyError and
\* stores nothing.
C30_NestedRefsChecked ==
    [][(/\ last'.op = "add"
        /\ last'.call.strict
        /\ ~Present(graph, last'.call.key)
        /\ \E w \in Range(NestedRefs(last'.call.computation)) :
                _check(graph, w) = NoKey) =>
            (last'.exc.type = "MissingKeyError" /\ graph' = graph)]_vars

====
